---- MODULE Spec2Model ----
(***************************************************************************)
(* BrickGenius: the board, the undo/redo history, the lifted group and     *)
(* the image-generation commit of src/App.tsx, as a state machine.         *)
(* One action per event handler; every handler runs on the render that     *)
(* follows the previous event, so a handler's closure reads the current    *)
(* state.  The one exception is the continuation of handleGenerate, which  *)
(* runs after an await with the closure of the render it was called in.    *)
(***************************************************************************)
EXTENDS Integers, Sequences, FiniteSets, TLC

----------------------------------------------------------------------------
(* Bounds of the model *)

\* number of brick ids that can ever be created (uuidv4 calls)
MaxBricks == 3
\* snapshots the history may hold, and the largest index, while no image is
\* ever uploaded
MaxHistory == 4
\* the same, for the runs in which an image generation is in play
GenMaxHistory == 3
\* longest history (number of snapshots) while bricks are only lifted and dropped
LiftMaxHistory == 5
\* longest voxel list the service answers with while only the packer is
\* exercised
MaxVoxels == 3
\* most generation calls outstanding at once when handleGenerate is called
\* without regard to the busy flag
MaxPending == 2
\* most bricks placed while the Scene is exercised
SceneMaxBricks == 2

----------------------------------------------------------------------------
(* Constants of the program *)

RED == "#EF4444"
BLUE == "#3B82F6"
\* a color string with commas, as the generation service may answer with
RGB_RED == "rgb(255,0,0)"

\* src/constants.ts: side of the square board
MAX_BOARD_SIZE == 20

\* specialType is an optional field: NONE stands for its absence
NONE == "NONE"

\* src/constants.ts BRICK_TYPES, in declaration order
BRICK_TYPES ==
  << [label |-> "1x1", sizeX |-> 1, sizeZ |-> 1, specialType |-> NONE],
     [label |-> "1x2", sizeX |-> 1, sizeZ |-> 2, specialType |-> NONE],
     [label |-> "1x3", sizeX |-> 1, sizeZ |-> 3, specialType |-> NONE],
     [label |-> "1x4", sizeX |-> 1, sizeZ |-> 4, specialType |-> NONE],
     [label |-> "2x2", sizeX |-> 2, sizeZ |-> 2, specialType |-> NONE],
     [label |-> "2x3", sizeX |-> 2, sizeZ |-> 3, specialType |-> NONE],
     [label |-> "2x4", sizeX |-> 2, sizeZ |-> 4, specialType |-> NONE],
     [label |-> "2x2 Axle", sizeX |-> 2, sizeZ |-> 2, specialType |-> "AXLE"],
     [label |-> "Wheel", sizeX |-> 1, sizeZ |-> 1, specialType |-> "TIRE"] >>

----------------------------------------------------------------------------
(* Inputs the events are drawn from *)

\* catalog entries the palette selects among (indices into BRICK_TYPES)
TypeChoices == {1, 2}
\* grid cells a click can name
ClickXs == {0}
ClickYs == {0, 1, 2}
ClickZs == {0}
\* the tools the tool selector offers
SceneModes == {"VIEW", "BUILD", "DELETE"}
\* catalog entries the palette selects among while the Scene is exercised
SceneTypes == {1, 8, 9}
\* points of the ground plane the pointer visits, in hundredths of a grid
\* unit: x = 10.00 and x = 10.50, at z = 0
ScenePlaneXs == {1000, 1050}
ScenePlaneZs == {0}
\* face normals of the brick bodies the pointer hits: top, +x, -x
SceneNormals == { << 0, 1, 0 >>, << 1, 0, 0 >>, << -1, 0, 0 >> }
\* the special catalog entries: the 2x2 axle and the wheel
SpecialTypes == {8, 9}
\* the columns clicked while bricks are only lifted and dropped
LiftZs == {0, 1}
\* the same, for the runs in which an image generation is in play
GenTypeChoices == {1}
GenClickXs == {0}

----------------------------------------------------------------------------
(* Generic helpers *)

Min(a, b) == IF a < b THEN a ELSE b
Max(a, b) == IF a > b THEN a ELSE b

\* Array.prototype.slice(0, n) on a sequence
SliceTo(s, n) == SubSeq(s, 1, Min(Max(n, 0), Len(s)))

\* Array.prototype.map

Range(s) == {s[i] : i \in 1..Len(s)}

Ids(s) == {s[i].id : i \in 1..Len(s)}

\* `v || 1` on an optional size
OrOne(v) == IF v = 0 THEN 1 ELSE v

----------------------------------------------------------------------------
(* State *)

VARIABLES
  bricks,               \* the live board: a sequence of placed bricks
  history,              \* sequence of board snapshots (history[1] is index 0)
  currentHistoryIndex,  \* 0-based index into history
  liftedGroup,          \* << >> (null) or << [bricks, anchorId] >>
  rotated,              \* placement rotation flag
  selectedBrickType,    \* index into BRICK_TYPES
  isGenerating,         \* the busy flag
  pending,              \* generation calls awaiting their result: the
                        \* currentHistoryIndex each call's closure captured
  nextId,               \* the next fresh id uuidv4 will return
  toolMode,             \* the selected tool: VIEW, BUILD, DELETE or MOVE
  hoverPos,             \* the Scene's hover cell: << >> (null) or << [x, y, z] >>
  trip,                 \* bookkeeping of the round-trip scenario (not program
                        \* state): its phase, the undos not yet redone, and
                        \* the history state right after the commits
  answer                \* bookkeeping (not program state): the voxel list of
                        \* the last answer of the generation service

vars == << bricks, history, currentHistoryIndex, liftedGroup, rotated,
           selectedBrickType, isGenerating, pending, nextId, toolMode,
           hoverPos, trip, answer >>

\* what the handlers of App other than handleGenerate never touch
aside == << toolMode, hoverPos, trip, answer >>

\* what the history manager holds
historyState == << bricks, history, currentHistoryIndex >>

NoGroup == << >>
HasGroup == liftedGroup # NoGroup
Group == liftedGroup[1]

canUndo == currentHistoryIndex > 0
canRedo == currentHistoryIndex < Len(history) - 1

\* history[i] of the code, 0-based; HistoryHas(i) is its truthiness
HistoryHas(i) == i >= 0 /\ i + 1 <= Len(history)
HistoryAt(i) == history[i + 1]

Init ==
  /\ bricks = << >>
  /\ history = << << >> >>
  /\ currentHistoryIndex = 0
  /\ liftedGroup = NoGroup
  /\ rotated = FALSE
  /\ selectedBrickType = 1
  /\ isGenerating = FALSE
  /\ pending = << >>
  /\ nextId = 1
  /\ toolMode = "VIEW"
  /\ hoverPos = << >>
  /\ answer = << >>
  /\ trip = [phase |-> "commits", undone |-> 0, after |-> historyState]

----------------------------------------------------------------------------
(* Geometry *)

\* isOverlapping of getLiftableBricks: XZ rectangles intersect
isOverlapping(b1, b2) ==
  LET b1W == OrOne(b1.sizeX)
      b1D == OrOne(b1.sizeZ)
      b2W == OrOne(b2.sizeX)
      b2D == OrOne(b2.sizeZ)
      xOverlap == Max(b1.x, b2.x) < Min(b1.x + b1W, b2.x + b2W)
      zOverlap == Max(b1.z, b2.z) < Min(b1.z + b1D, b2.z + b2D)
  IN xOverlap /\ zOverlap

\* a traversal filter that also walks down to the layer below current
supportedByOrUnder(current, resultIds, allBricks) ==
  SelectSeq(allBricks, LAMBDA b :
     /\ b.id \notin Range(resultIds)
     /\ (b.y = current.y + 1 \/ b.y = current.y - 1)
     /\ isOverlapping(current, b))

\* a filter that takes only the bricks on top that start at current's corner
supportedByAligned(current, resultIds, allBricks) ==
  SelectSeq(allBricks, LAMBDA b :
     /\ b.id \notin Range(resultIds)
     /\ b.y = current.y + 1
     /\ b.x = current.x /\ b.z = current.z)

\* the filter of the traversal loop: bricks immediately on top of current
supportedBy(current, resultIds, allBricks) ==
  SelectSeq(allBricks, LAMBDA b :
     /\ b.id \notin Range(resultIds)
     /\ b.y = current.y + 1
     /\ isOverlapping(current, b))

RECURSIVE liftLoop(_, _, _)
liftLoop(queue, resultIds, allBricks) ==
  IF queue = << >> THEN resultIds
  ELSE LET current == Head(queue)
           supported == supportedBy(current, resultIds, allBricks)
       IN liftLoop(Tail(queue) \o supported,
                   resultIds \o [i \in 1..Len(supported) |-> supported[i].id],
                   allBricks)

\* getLiftableBricks(startBrickId, allBricks): the ids, in collection order
getLiftableBricks(startBrickId, allBricks) ==
  LET found == SelectSeq(allBricks, LAMBDA b : b.id = startBrickId)
  IN IF found = << >> THEN << >>
     ELSE liftLoop(<< found[1] >>, << startBrickId >>, allBricks)

----------------------------------------------------------------------------
(* History *)

\* saveToHistory that appends without dropping the redo branch
saveToHistoryKeepingRedo(newBricks, capturedIndex) ==
  /\ history' = Append(history, newBricks)
  /\ currentHistoryIndex' = currentHistoryIndex + 1
  /\ bricks' = newBricks

\* saveToHistory(newBricks) of a closure that captured capturedIndex
saveToHistory(newBricks, capturedIndex) ==
  /\ history' = Append(SliceTo(history, capturedIndex + 1), newBricks)
  /\ currentHistoryIndex' = currentHistoryIndex + 1
  /\ bricks' = newBricks

\* undo that restores the board and keeps the held group
undoKeepingGroup ==
  /\ IF currentHistoryIndex > 0
     THEN LET newIndex == currentHistoryIndex - 1
          IN /\ currentHistoryIndex' = newIndex
             /\ IF HistoryHas(newIndex)
                THEN bricks' = HistoryAt(newIndex)
                ELSE UNCHANGED bricks
     ELSE UNCHANGED << currentHistoryIndex, bricks >>
  /\ UNCHANGED << history, liftedGroup, rotated, selectedBrickType,
                  isGenerating, pending, nextId >>

undo ==
  /\ IF currentHistoryIndex > 0
     THEN LET newIndex == currentHistoryIndex - 1
          IN /\ currentHistoryIndex' = newIndex
             /\ IF HistoryHas(newIndex)
                THEN /\ bricks' = HistoryAt(newIndex)
                     /\ liftedGroup' = NoGroup
                ELSE UNCHANGED << bricks, liftedGroup >>
     ELSE UNCHANGED << currentHistoryIndex, bricks, liftedGroup >>
  /\ UNCHANGED << history, rotated, selectedBrickType, isGenerating,
                  pending, nextId >>

\* redo that moves the index and forgets to load the snapshot
redoWithoutBoard ==
  /\ IF currentHistoryIndex < Len(history) - 1
     THEN /\ currentHistoryIndex' = currentHistoryIndex + 1
          /\ liftedGroup' = NoGroup
          /\ UNCHANGED bricks
     ELSE UNCHANGED << currentHistoryIndex, bricks, liftedGroup >>
  /\ UNCHANGED << history, rotated, selectedBrickType, isGenerating,
                  pending, nextId >>

redo ==
  /\ IF currentHistoryIndex < Len(history) - 1
     THEN LET newIndex == currentHistoryIndex + 1
          IN /\ currentHistoryIndex' = newIndex
             /\ IF HistoryHas(newIndex)
                THEN /\ bricks' = HistoryAt(newIndex)
                     /\ liftedGroup' = NoGroup
                ELSE UNCHANGED << bricks, liftedGroup >>
     ELSE UNCHANGED << currentHistoryIndex, bricks, liftedGroup >>
  /\ UNCHANGED << history, rotated, selectedBrickType, isGenerating,
                  pending, nextId >>

----------------------------------------------------------------------------
(* Manual edits *)

\* a brick stamped with a 1x1 footprint whatever the catalog entry
newBrickUnitFootprint(id, x, y, z) ==
  [ id |-> id, x |-> x, y |-> y, z |-> z,
    color |-> RED,
    sizeX |-> 1,
    sizeZ |-> 1,
    rotation |-> IF rotated THEN 90 ELSE 0,
    specialType |-> BRICK_TYPES[selectedBrickType].specialType ]

\* the brick addBrick stamps from the selected catalog entry
newBrick(id, x, y, z) ==
  LET t == BRICK_TYPES[selectedBrickType]
  IN [ id |-> id, x |-> x, y |-> y, z |-> z,
       color |-> RED,
       sizeX |-> IF rotated THEN t.sizeZ ELSE t.sizeX,
       sizeZ |-> IF rotated THEN t.sizeX ELSE t.sizeZ,
       rotation |-> IF rotated THEN 90 ELSE 0,
       specialType |-> t.specialType ]

addBrick(x, y, z) ==
  /\ nextId <= MaxBricks
  /\ saveToHistory(Append(bricks, newBrick(nextId, x, y, z)),
                   currentHistoryIndex)
  /\ nextId' = nextId + 1
  /\ UNCHANGED << liftedGroup, rotated, selectedBrickType, isGenerating,
                  pending >>

removeBrick(id) ==
  /\ saveToHistory(SelectSeq(bricks, LAMBDA b : b.id # id),
                   currentHistoryIndex)
  /\ UNCHANGED << liftedGroup, rotated, selectedBrickType, isGenerating,
                  pending, nextId >>

clearBricks ==
  /\ saveToHistory(<< >>, currentHistoryIndex)
  /\ liftedGroup' = NoGroup
  /\ UNCHANGED << rotated, selectedBrickType, isGenerating, pending, nextId >>

setSelectedBrickType(t) ==
  /\ selectedBrickType' = t
  /\ UNCHANGED << bricks, history, currentHistoryIndex, liftedGroup, rotated,
                  isGenerating, pending, nextId >>

----------------------------------------------------------------------------
(* Lift, rotate, drop *)

\* offsets measured from the origin of the grid instead of the anchor
withOffsetsFromOrigin(b, anchorBrick) ==
  [ id |-> b.id, x |-> b.x, y |-> b.y, z |-> b.z, color |-> b.color,
    sizeX |-> b.sizeX, sizeZ |-> b.sizeZ, rotation |-> b.rotation,
    specialType |-> b.specialType,
    offsetX |-> b.x, offsetY |-> b.y, offsetZ |-> b.z ]

\* a collected brick with its offsets from the anchor brick
withOffsets(b, anchorBrick) ==
  [ id |-> b.id, x |-> b.x, y |-> b.y, z |-> b.z, color |-> b.color,
    sizeX |-> b.sizeX, sizeZ |-> b.sizeZ, rotation |-> b.rotation,
    specialType |-> b.specialType,
    offsetX |-> b.x - anchorBrick.x,
    offsetY |-> b.y - anchorBrick.y,
    offsetZ |-> b.z - anchorBrick.z ]

\* the collected bricks of handleLiftBrick, in board order
liftGroup(brickId, allBricks) ==
  LET liftableIds == getLiftableBricks(brickId, allBricks)
  IN SelectSeq(allBricks, LAMBDA b : b.id \in Range(liftableIds))

\* a board that loses the clicked brick only
remainingBricksButClicked(brickId, allBricks) ==
  SelectSeq(allBricks, LAMBDA b : b.id # brickId)

\* the bricks handleLiftBrick leaves on the board
remainingBricks(brickId, allBricks) ==
  LET liftableIds == getLiftableBricks(brickId, allBricks)
  IN SelectSeq(allBricks, LAMBDA b : b.id \notin Range(liftableIds))

\* the lifted group handleLiftBrick stores
groupWithOffsets(brickId, allBricks) ==
  LET group == liftGroup(brickId, allBricks)
      anchorBrick == SelectSeq(group, LAMBDA b : b.id = brickId)[1]
  IN [ bricks |-> [i \in 1..Len(group) |-> withOffsets(group[i], anchorBrick)],
       anchorId |-> brickId ]

\* Scene calls onLiftBrick only while no group is held, on a rendered brick;
\* brickId ranges over every id so that the early return is exercised too
handleLiftBrick(brickId) ==
  /\ ~HasGroup
  /\ IF brickId \in Ids(liftGroup(brickId, bricks))
     THEN /\ saveToHistory(remainingBricks(brickId, bricks),
                           currentHistoryIndex)
          /\ liftedGroup' = << groupWithOffsets(brickId, bricks) >>
     ELSE UNCHANGED << bricks, history, currentHistoryIndex, liftedGroup >>
  /\ UNCHANGED << rotated, selectedBrickType, isGenerating, pending, nextId >>

\* a rotation that compensates the pivot with the depth instead of the width
rotateMemberByDepth(b) ==
  [ b EXCEPT !.offsetX = b.offsetZ,
             !.offsetZ = (0 - b.offsetX) - OrOne(b.sizeZ),
             !.sizeX = b.sizeZ,
             !.sizeZ = b.sizeX,
             !.rotation = IF b.rotation = 0 THEN 90 ELSE 0 ]

\* a rotation that turns the offsets but leaves the footprint as it was
rotateMemberKeepingSize(b) ==
  [ b EXCEPT !.offsetX = b.offsetZ,
             !.offsetZ = (0 - b.offsetX) - OrOne(b.sizeX),
             !.rotation = IF b.rotation = 0 THEN 90 ELSE 0 ]

\* rotateMember that swaps the two offsets instead of turning them
rotateMemberTransposed(b) ==
  [ b EXCEPT !.offsetX = b.offsetZ,
             !.offsetZ = b.offsetX,
             !.sizeX = b.sizeZ,
             !.sizeZ = b.sizeX,
             !.rotation = IF b.rotation = 0 THEN 90 ELSE 0 ]

\* one member of the held group turned 90 degrees about the anchor
rotateMember(b) ==
  [ b EXCEPT !.offsetX = b.offsetZ,
             !.offsetZ = (0 - b.offsetX) - OrOne(b.sizeX),
             !.sizeX = b.sizeZ,
             !.sizeZ = b.sizeX,
             !.rotation = IF b.rotation = 0 THEN 90 ELSE 0 ]

rotateLiftedGroup ==
  /\ IF ~HasGroup
     THEN /\ rotated' = ~rotated
          /\ UNCHANGED liftedGroup
     ELSE /\ liftedGroup' =
               << [ Group EXCEPT !.bricks =
                      [i \in 1..Len(Group.bricks) |->
                          rotateMember(Group.bricks[i])] ] >>
          /\ UNCHANGED rotated
  /\ UNCHANGED << bricks, history, currentHistoryIndex, selectedBrickType,
                  isGenerating, pending, nextId >>

\* a member placed at the anchor itself, its offsets cleared
proposedBrickAtAnchor(b, anchorX, anchorY, anchorZ) ==
  [ id |-> b.id, x |-> anchorX, y |-> anchorY, z |-> anchorZ,
    color |-> b.color, sizeX |-> b.sizeX, sizeZ |-> b.sizeZ,
    rotation |-> b.rotation, specialType |-> b.specialType ]

\* a member placed at anchor + offset that keeps its offsets
proposedBrickKeepingOffsets(b, anchorX, anchorY, anchorZ) ==
  [ b EXCEPT !.x = anchorX + b.offsetX,
             !.y = anchorY + b.offsetY,
             !.z = anchorZ + b.offsetZ ]

\* a member placed at anchor + offset, its offsets cleared
proposedBrick(b, anchorX, anchorY, anchorZ) ==
  [ id |-> b.id,
    x |-> anchorX + b.offsetX,
    y |-> anchorY + b.offsetY,
    z |-> anchorZ + b.offsetZ,
    color |-> b.color, sizeX |-> b.sizeX, sizeZ |-> b.sizeZ,
    rotation |-> b.rotation, specialType |-> b.specialType ]

proposedBricks(group, anchorX, anchorY, anchorZ) ==
  [i \in 1..Len(group.bricks) |->
      proposedBrick(group.bricks[i], anchorX, anchorY, anchorZ)]

\* a collision check that compares the corners of the footprints only
hasCollisionAtCorner(proposed, existing) ==
  \E i \in 1..Len(proposed) : \E j \in 1..Len(existing) :
     /\ proposed[i].x = existing[j].x
     /\ proposed[i].z = existing[j].z
     /\ proposed[i].y = existing[j].y

\* a collision check that tests only the first proposed brick
hasCollisionOfFirst(proposed, existing) ==
  \E i \in {1} \cap (1..Len(proposed)) : \E j \in 1..Len(existing) :
     LET pb == proposed[i]
         eb == existing[j]
         xOverlap == Max(pb.x, eb.x)
                       < Min(pb.x + OrOne(pb.sizeX), eb.x + OrOne(eb.sizeX))
         zOverlap == Max(pb.z, eb.z)
                       < Min(pb.z + OrOne(pb.sizeZ), eb.z + OrOne(eb.sizeZ))
         yOverlap == pb.y = eb.y
     IN xOverlap /\ zOverlap /\ yOverlap

\* the collision check of handleDropGroup
hasCollision(proposed, existing) ==
  \E i \in 1..Len(proposed) : \E j \in 1..Len(existing) :
     LET pb == proposed[i]
         eb == existing[j]
         xOverlap == Max(pb.x, eb.x)
                       < Min(pb.x + OrOne(pb.sizeX), eb.x + OrOne(eb.sizeX))
         zOverlap == Max(pb.z, eb.z)
                       < Min(pb.z + OrOne(pb.sizeZ), eb.z + OrOne(eb.sizeZ))
         yOverlap == pb.y = eb.y
     IN xOverlap /\ zOverlap /\ yOverlap

handleDropGroup(anchorX, anchorY, anchorZ) ==
  /\ IF ~HasGroup
     THEN UNCHANGED << bricks, history, currentHistoryIndex, liftedGroup >>
     ELSE LET proposed == proposedBricks(Group, anchorX, anchorY, anchorZ)
          IN IF ~hasCollision(proposed, bricks)
             THEN /\ saveToHistory(bricks \o proposed, currentHistoryIndex)
                  /\ liftedGroup' = NoGroup
             ELSE UNCHANGED << bricks, history, currentHistoryIndex,
                               liftedGroup >>
  /\ UNCHANGED << rotated, selectedBrickType, isGenerating, pending, nextId >>

----------------------------------------------------------------------------
(* Graph search for connected bricks: the App variant with getConnectedBricks *)

\* areConnected that only looks one layer up from b1
areConnectedAbove(b1, b2) ==
  IF b2.y - b1.y # 1 THEN FALSE
  ELSE LET b1Width == OrOne(b1.sizeX)
           b1Depth == OrOne(b1.sizeZ)
           b2Width == OrOne(b2.sizeX)
           b2Depth == OrOne(b2.sizeZ)
           xOverlap == Max(b1.x, b2.x) < Min(b1.x + b1Width, b2.x + b2Width)
           zOverlap == Max(b1.z, b2.z) < Min(b1.z + b1Depth, b2.z + b2Depth)
       IN xOverlap /\ zOverlap

\* areConnected(b1, b2): vertical adjacency and horizontal overlap
areConnected(b1, b2) ==
  LET yDiff == IF b1.y - b2.y < 0 THEN b2.y - b1.y ELSE b1.y - b2.y
  IN IF yDiff # 1 THEN FALSE
     ELSE LET b1Width == OrOne(b1.sizeX)
              b1Depth == OrOne(b1.sizeZ)
              b2Width == OrOne(b2.sizeX)
              b2Depth == OrOne(b2.sizeZ)
              xOverlap == Max(b1.x, b2.x) < Min(b1.x + b1Width, b2.x + b2Width)
              zOverlap == Max(b1.z, b2.z) < Min(b1.z + b1Depth, b2.z + b2Depth)
          IN xOverlap /\ zOverlap

\* the for loop over allBricks for one dequeued brick, from position i on;
\* acc is [queue, connectedIds], and visited holds the ids of connectedIds
RECURSIVE connectedScan(_, _, _, _)
connectedScan(i, current, acc, allBricks) ==
  IF i > Len(allBricks) THEN acc
  ELSE LET brick == allBricks[i]
       IN IF brick.id \notin Range(acc.connectedIds)
             /\ areConnected(current, brick)
          THEN connectedScan(i + 1, current,
                 [queue |-> Append(acc.queue, brick),
                  connectedIds |-> Append(acc.connectedIds, brick.id)],
                 allBricks)
          ELSE connectedScan(i + 1, current, acc, allBricks)

\* the while loop of the search
RECURSIVE connectedLoop(_, _)
connectedLoop(acc, allBricks) ==
  IF acc.queue = << >> THEN acc.connectedIds
  ELSE connectedLoop(
         connectedScan(1, Head(acc.queue),
                       [queue |-> Tail(acc.queue),
                        connectedIds |-> acc.connectedIds],
                       allBricks),
         allBricks)

\* getConnectedBricks(startBrickId, allBricks): the ids, in visiting order
getConnectedBricks(startBrickId, allBricks) ==
  LET found == SelectSeq(allBricks, LAMBDA b : b.id = startBrickId)
  IN IF found = << >> THEN << >>
     ELSE connectedLoop([queue |-> << found[1] >>,
                         connectedIds |-> << startBrickId >>], allBricks)

----------------------------------------------------------------------------
(* Voxel packer: optimizeBricks *)

\* rotation is an optional field: the 1x1 fallback of the packer leaves it out
NoRotation == -1

\* the Map key `${b.y},${b.color}`: distinct (y, color) give distinct keys
keyOf(b) == << b.y, b.color >>

\* `const [yStr, color] = key.split(',')`: the color read back from a key is
\* the text between its first and its second comma
colorOfKey(key) == IF key[2] = RGB_RED THEN "rgb(255" ELSE key[2]

\* keys of bricksByLayerColor in insertion order
RECURSIVE groupKeys(_, _)
groupKeys(rawBricks, seen) ==
  IF rawBricks = << >> THEN seen
  ELSE IF keyOf(Head(rawBricks)) \in Range(seen)
       THEN groupKeys(Tail(rawBricks), seen)
       ELSE groupKeys(Tail(rawBricks), Append(seen, keyOf(Head(rawBricks))))

\* the Set of `${b.x},${b.z}` stored under a key
coordsSetOf(rawBricks, key) ==
  { << rawBricks[i].x, rawBricks[i].z >> :
      i \in { j \in 1..Len(rawBricks) : keyOf(rawBricks[j]) = key } }

\* the comparator of the coords sort: ascending z, then ascending x
coordBefore(a, b) == IF a[2] # b[2] THEN a[2] < b[2] ELSE a[1] < b[1]

\* Array.from(coordsSet): the cells stored under a key, in insertion order
RECURSIVE coordsOf(_, _, _)
coordsOf(rawBricks, key, seen) ==
  IF rawBricks = << >> THEN seen
  ELSE LET b == Head(rawBricks)
       IN IF keyOf(b) = key /\ << b.x, b.z >> \notin Range(seen)
          THEN coordsOf(Tail(rawBricks), key, Append(seen, << b.x, b.z >>))
          ELSE coordsOf(Tail(rawBricks), key, seen)

\* c put at its place in a list already in visiting order
insertCoord(sorted, c) ==
  LET k == Cardinality({ i \in 1..Len(sorted) : coordBefore(sorted[i], c) })
  IN SubSeq(sorted, 1, k) \o << c >> \o SubSeq(sorted, k + 1, Len(sorted))

RECURSIVE sortInto(_, _)
sortInto(coords, sorted) ==
  IF coords = << >> THEN sorted
  ELSE sortInto(Tail(coords), insertCoord(sorted, Head(coords)))

\* cells visited in the order they were inserted
sortCoordsSkipped(coords) == coords

\* the sort of the cells of a group
sortCoords(coords) == sortInto(coords, << >>)

area(t) == t.sizeX * t.sizeZ

\* stable insertion of t into a list already in descending area
insertByArea(sorted, t) ==
  LET k == Cardinality({ i \in 1..Len(sorted) : area(sorted[i]) >= area(t) })
  IN SubSeq(sorted, 1, k) \o << t >> \o SubSeq(sorted, k + 1, Len(sorted))

RECURSIVE sortByAreaDesc(_, _)
sortByAreaDesc(types, sorted) ==
  IF types = << >> THEN sorted
  ELSE sortByAreaDesc(Tail(types), insertByArea(sorted, Head(types)))

\* the non-special catalog entries in catalog order, smallest first
standardTypesUnsorted == SelectSeq(BRICK_TYPES, LAMBDA t : t.specialType = NONE)

\* the non-special catalog entries, largest area first (the sort is stable)
standardTypes ==
  sortByAreaDesc(SelectSeq(BRICK_TYPES, LAMBDA t : t.specialType = NONE),
                 << >>)

\* a fit test that does not look at the cells already processed
fitsIgnoringProcessed(x, z, w, d, coordsSet, processed) ==
  \A i \in 0..(w - 1) : \A j \in 0..(d - 1) :
     << x + i, z + j >> \in coordsSet

\* the nested fit loops: every cell of the w x d rectangle at (x, z) is in the
\* group and not yet processed
fits(x, z, w, d, coordsSet, processed) ==
  \A i \in 0..(w - 1) : \A j \in 0..(d - 1) :
     /\ << x + i, z + j >> \in coordsSet
     /\ << x + i, z + j >> \notin processed

\* the for loop over standardTypes from position k: << >> when nothing fits
RECURSIVE bestFit(_, _, _, _, _)
bestFit(k, x, z, coordsSet, processed) ==
  IF k > Len(standardTypes) THEN << >>
  ELSE LET brickType == standardTypes[k]
       IN IF fits(x, z, brickType.sizeX, brickType.sizeZ, coordsSet, processed)
          THEN << [type |-> brickType, rotated |-> FALSE] >>
          ELSE IF /\ brickType.sizeX # brickType.sizeZ
                  /\ fits(x, z, brickType.sizeZ, brickType.sizeX,
                          coordsSet, processed)
               THEN << [type |-> brickType, rotated |-> TRUE] >>
               ELSE bestFit(k + 1, x, z, coordsSet, processed)

\* the cells of a w x d rectangle at (x, z)
cellsOf(x, z, w, d) ==
  { << x + i, z + j >> : i \in 0..(w - 1), j \in 0..(d - 1) }

\* coords.forEach of one group; optimized is the output list so far and
\* firstId the id of its first brick
RECURSIVE packCoords(_, _, _, _, _, _, _)
packCoords(coords, coordsSet, processed, y, color, optimized, firstId) ==
  IF coords = << >> THEN optimized
  ELSE
    LET x == Head(coords)[1]
        z == Head(coords)[2]
        id == firstId + Len(optimized)
    IN IF << x, z >> \in processed
       THEN packCoords(Tail(coords), coordsSet, processed, y, color,
                       optimized, firstId)
       ELSE
         LET best == bestFit(1, x, z, coordsSet, processed)
         IN IF best # << >>
            THEN
              LET width == IF best[1].rotated THEN best[1].type.sizeZ
                           ELSE best[1].type.sizeX
                  depth == IF best[1].rotated THEN best[1].type.sizeX
                           ELSE best[1].type.sizeZ
              IN packCoords(Tail(coords), coordsSet,
                   processed \cup cellsOf(x, z, width, depth), y, color,
                   Append(optimized,
                     [ id |-> id, x |-> x, y |-> y, z |-> z, color |-> color,
                       sizeX |-> width, sizeZ |-> depth,
                       rotation |-> IF best[1].rotated THEN 90 ELSE 0,
                       specialType |-> NONE ]),
                   firstId)
            ELSE
              packCoords(Tail(coords), coordsSet,
                   processed \cup { << x, z >> }, y, color,
                   Append(optimized,
                     [ id |-> id, x |-> x, y |-> y, z |-> z, color |-> color,
                       sizeX |-> 1, sizeZ |-> 1,
                       rotation |-> NoRotation,
                       specialType |-> NONE ]),
                   firstId)

\* bricksByLayerColor.forEach over the keys
RECURSIVE packGroups(_, _, _, _)
packGroups(keys, rawBricks, optimized, firstId) ==
  IF keys = << >> THEN optimized
  ELSE LET key == Head(keys)
           coordsSet == coordsSetOf(rawBricks, key)
       IN packGroups(Tail(keys), rawBricks,
            packCoords(sortCoords(coordsOf(rawBricks, key, << >>)),
                       coordsSet, {}, key[1],
                       colorOfKey(key), optimized, firstId),
            firstId)

optimizeBricks(rawBricks, firstId) ==
  packGroups(groupKeys(rawBricks, << >>), rawBricks, << >>, firstId)

\* optimizedBricks.sort((a, b) => a.y - b.y): a stable sort by layer
insertByY(sorted, b) ==
  LET k == Cardinality({ i \in 1..Len(sorted) : sorted[i].y <= b.y })
  IN SubSeq(sorted, 1, k) \o << b >> \o SubSeq(sorted, k + 1, Len(sorted))

RECURSIVE sortByY(_, _)
sortByY(list, sorted) ==
  IF list = << >> THEN sorted
  ELSE sortByY(Tail(list), insertByY(sorted, Head(list)))

----------------------------------------------------------------------------
(* Image generation: handleGenerate *)

Voxel(x, y, z, color) == [x |-> x, y |-> y, z |-> z, color |-> color]

\* voxel lists the service answers with ("" is a voxel without a color)
GenResults ==
  { << >>,
    << Voxel(0, 1, 0, BLUE), Voxel(0, 0, 0, RED), Voxel(0, 2, 0, "") >> }

\* result.bricks.map(...): the color defaults to red
rawBricksOf(resultBricks) ==
  [i \in 1..Len(resultBricks) |->
     [ x |-> resultBricks[i].x, y |-> resultBricks[i].y,
       z |-> resultBricks[i].z,
       color |-> IF resultBricks[i].color = "" THEN RED
                 ELSE resultBricks[i].color ]]

\* the board handleGenerate commits for a result
generatedBricks(resultBricks, firstId) ==
  sortByY(optimizeBricks(rawBricksOf(resultBricks), firstId), << >>)

RemoveAt(s, i) == SubSeq(s, 1, i - 1) \o SubSeq(s, i + 1, Len(s))

\* handleGenerate up to its await; the upload button is disabled while busy
generateRequest ==
  /\ ~isGenerating
  /\ isGenerating' = TRUE
  /\ toolMode' = "VIEW"
  /\ liftedGroup' = NoGroup
  /\ pending' = Append(pending, currentHistoryIndex)
  /\ UNCHANGED << bricks, history, currentHistoryIndex, rotated,
                  selectedBrickType, nextId >>

\* the await resolves with a bricks field: pack, sort, commit with the
\* saveToHistory of the render the call was made in
generateResolve(i, resultBricks) ==
  LET optimizedBricks == generatedBricks(resultBricks, nextId)
  IN /\ i \in 1..Len(pending)
     /\ nextId + Len(optimizedBricks) <= MaxBricks + 1
     /\ saveToHistory(optimizedBricks, pending[i])
     /\ nextId' = nextId + Len(optimizedBricks)
     /\ isGenerating' = FALSE
     /\ pending' = RemoveAt(pending, i)
     /\ UNCHANGED << liftedGroup, rotated, selectedBrickType >>

\* handleGenerate up to its await, as the function itself runs: it tests
\* nothing before it starts the call
handleGenerate ==
  /\ isGenerating' = TRUE
  /\ toolMode' = "VIEW"
  /\ liftedGroup' = NoGroup
  /\ pending' = Append(pending, currentHistoryIndex)
  /\ UNCHANGED << bricks, history, currentHistoryIndex, rotated,
                  selectedBrickType, nextId >>

\* a failed call whose `finally` leaves the busy flag set
generateFailStillBusy(i) ==
  /\ i \in 1..Len(pending)
  /\ pending' = RemoveAt(pending, i)
  /\ UNCHANGED << bricks, history, currentHistoryIndex, liftedGroup, rotated,
                  selectedBrickType, nextId, isGenerating >>

\* a failed call that nevertheless commits an empty board
generateFailCommitting(i) ==
  /\ i \in 1..Len(pending)
  /\ saveToHistory(<< >>, pending[i])
  /\ isGenerating' = FALSE
  /\ pending' = RemoveAt(pending, i)
  /\ UNCHANGED << liftedGroup, rotated, selectedBrickType, nextId >>

\* the await resolves without a bricks field, or rejects: only `finally` runs
generateFail(i) ==
  /\ i \in 1..Len(pending)
  /\ isGenerating' = FALSE
  /\ pending' = RemoveAt(pending, i)
  /\ UNCHANGED << bricks, history, currentHistoryIndex, liftedGroup, rotated,
                  selectedBrickType, nextId >>

----------------------------------------------------------------------------
(* Scene: pointer events; points are in hundredths of a grid unit *)

\* Math.round of a coordinate given in hundredths (halves round up)
snapToGrid(val) == (val + 50) \div 100

\* the tool selector of Controls
setToolMode(mode) ==
  /\ toolMode' = mode
  /\ UNCHANGED << bricks, history, currentHistoryIndex, liftedGroup, rotated,
                  selectedBrickType, isGenerating, pending, nextId, hoverPos,
                  trip, answer >>

Hover(x, y, z) == << [x |-> x, y |-> y, z |-> z] >>

\* the pointer moves over the ground plane (existingY is left at 0)
handlePointerMove(px, pz) ==
  /\ IF toolMode # "BUILD" /\ toolMode # "MOVE"
     THEN hoverPos' = << >>
     ELSE LET x == snapToGrid(px)
              z == snapToGrid(pz)
          IN IF \/ x < 0 - MAX_BOARD_SIZE \div 2 \/ x > MAX_BOARD_SIZE \div 2
                \/ z < 0 - MAX_BOARD_SIZE \div 2 \/ z > MAX_BOARD_SIZE \div 2
             THEN hoverPos' = << >>
             ELSE hoverPos' = Hover(x, 0, z)
  /\ UNCHANGED << bricks, history, currentHistoryIndex, liftedGroup, rotated,
                  selectedBrickType, isGenerating, pending, nextId, toolMode,
                  trip, answer >>

\* a click on the ground plane
handleClick ==
  IF toolMode = "BUILD" /\ hoverPos # << >>
  THEN addBrick(hoverPos[1].x, hoverPos[1].y, hoverPos[1].z) /\ UNCHANGED aside
  ELSE IF toolMode = "MOVE" /\ HasGroup /\ hoverPos # << >>
       THEN /\ handleDropGroup(hoverPos[1].x, hoverPos[1].y, hoverPos[1].z)
            /\ UNCHANGED aside
       ELSE UNCHANGED vars

\* the points of the body of a brick the pointer can hit, with the normal of
\* the face hit: the body is a box sizeX - 0.04 by sizeZ - 0.04 centred on the
\* footprint, so a side face lies 0.48 outside the centre of the outermost
\* cell; on the face a point is taken at the centre line of each cell
FaceHits(brick) ==
  LET across(lo, size, d) ==
        IF d = 1 THEN { 100 * (lo + size) - 52 }
        ELSE IF d = -1 THEN { 100 * lo - 48 }
        ELSE { 100 * (lo + i) : i \in 0..(size - 1) }
  IN UNION { { [point |-> [x |-> px, z |-> pz], normal |-> n] :
                 px \in across(brick.x, brick.sizeX, n[1]),
                 pz \in across(brick.z, brick.sizeZ, n[3]) } :
             n \in SceneNormals }

\* the cell a click or hover on a face of a brick names
faceTarget(brick, point, normal) ==
  LET gridX == snapToGrid(point.x)
      gridY == brick.y
      gridZ == snapToGrid(point.z)
  IN IF normal[2] = 1
     THEN [x |-> gridX, y |-> gridY + 1, z |-> gridZ]
     ELSE [x |-> gridX + normal[1], y |-> gridY + normal[2],
           z |-> gridZ + normal[3]]

\* a click on a brick of the board
onBrickClick(brick, point, normal) ==
  LET target == faceTarget(brick, point, normal)
  IN IF toolMode = "DELETE"
     THEN removeBrick(brick.id) /\ UNCHANGED aside
     ELSE IF toolMode = "MOVE" /\ ~HasGroup
     THEN handleLiftBrick(brick.id) /\ UNCHANGED aside
     ELSE IF toolMode = "BUILD"
     THEN addBrick(target.x, target.y, target.z) /\ UNCHANGED aside
     ELSE IF toolMode = "MOVE" /\ HasGroup
     THEN handleDropGroup(target.x, target.y, target.z) /\ UNCHANGED aside
     ELSE UNCHANGED vars

\* the pointer moves over a brick of the board
onBrickHover(brick, point, normal) ==
  LET target == faceTarget(brick, point, normal)
  IN /\ IF (toolMode = "MOVE" /\ HasGroup) \/ toolMode = "BUILD"
        THEN hoverPos' = Hover(target.x, target.y, target.z)
        ELSE UNCHANGED hoverPos
     /\ UNCHANGED << bricks, history, currentHistoryIndex, liftedGroup,
                     rotated, selectedBrickType, isGenerating, pending,
                     nextId, toolMode, trip, answer >>

----------------------------------------------------------------------------
(* The App variant built on the useHistory hook *)

\* useEffect(() => setLiftedGroup(null), [bricks]): after a render in which
\* bricks is another array than in the render before, the group is reset;
\* the effect runs before the next event is handled, so each handler below
\* ends with it
resetLiftedGroup(group, bricksReplaced) ==
  IF bricksReplaced THEN NoGroup ELSE group

\* saveToHistory of useHistory: always installs a new bricks array
hookSaveToHistory(newBricks) ==
  /\ history' = Append(SliceTo(history, currentHistoryIndex + 1), newBricks)
  /\ currentHistoryIndex' = currentHistoryIndex + 1
  /\ bricks' = newBricks

hookAddBrick(x, y, z) ==
  /\ nextId <= MaxBricks
  /\ hookSaveToHistory(Append(bricks, newBrick(nextId, x, y, z)))
  /\ liftedGroup' = resetLiftedGroup(liftedGroup, TRUE)
  /\ nextId' = nextId + 1
  /\ UNCHANGED << rotated, selectedBrickType, isGenerating, pending >>

hookRemoveBrick(id) ==
  /\ hookSaveToHistory(SelectSeq(bricks, LAMBDA b : b.id # id))
  /\ liftedGroup' = resetLiftedGroup(liftedGroup, TRUE)
  /\ UNCHANGED << rotated, selectedBrickType, isGenerating, pending, nextId >>

hookClearBricks ==
  /\ hookSaveToHistory(<< >>)
  /\ liftedGroup' = resetLiftedGroup(NoGroup, TRUE)
  /\ UNCHANGED << rotated, selectedBrickType, isGenerating, pending, nextId >>

hookHandleLiftBrick(brickId) ==
  /\ ~HasGroup
  /\ IF brickId \in Ids(liftGroup(brickId, bricks))
     THEN /\ hookSaveToHistory(remainingBricks(brickId, bricks))
          /\ liftedGroup' =
                resetLiftedGroup(<< groupWithOffsets(brickId, bricks) >>, TRUE)
     ELSE UNCHANGED << bricks, history, currentHistoryIndex, liftedGroup >>
  /\ UNCHANGED << rotated, selectedBrickType, isGenerating, pending, nextId >>

hookHandleDropGroup(anchorX, anchorY, anchorZ) ==
  /\ IF ~HasGroup
     THEN UNCHANGED << bricks, history, currentHistoryIndex, liftedGroup >>
     ELSE LET proposed == proposedBricks(Group, anchorX, anchorY, anchorZ)
          IN IF ~hasCollision(proposed, bricks)
             THEN /\ hookSaveToHistory(bricks \o proposed)
                  /\ liftedGroup' = resetLiftedGroup(NoGroup, TRUE)
             ELSE UNCHANGED << bricks, history, currentHistoryIndex,
                               liftedGroup >>
  /\ UNCHANGED << rotated, selectedBrickType, isGenerating, pending, nextId >>

\* undo of useHistory: the snapshot it installs is another array than the
\* live one
hookUndo ==
  /\ IF currentHistoryIndex > 0
     THEN LET newIndex == currentHistoryIndex - 1
          IN /\ currentHistoryIndex' = newIndex
             /\ IF HistoryHas(newIndex)
                THEN /\ bricks' = HistoryAt(newIndex)
                     /\ liftedGroup' = resetLiftedGroup(liftedGroup, TRUE)
                ELSE UNCHANGED << bricks, liftedGroup >>
     ELSE UNCHANGED << currentHistoryIndex, bricks, liftedGroup >>
  /\ UNCHANGED << history, rotated, selectedBrickType, isGenerating,
                  pending, nextId >>

hookRedo ==
  /\ IF currentHistoryIndex < Len(history) - 1
     THEN LET newIndex == currentHistoryIndex + 1
          IN /\ currentHistoryIndex' = newIndex
             /\ IF HistoryHas(newIndex)
                THEN /\ bricks' = HistoryAt(newIndex)
                     /\ liftedGroup' = resetLiftedGroup(liftedGroup, TRUE)
                ELSE UNCHANGED << bricks, liftedGroup >>
     ELSE UNCHANGED << currentHistoryIndex, bricks, liftedGroup >>
  /\ UNCHANGED << history, rotated, selectedBrickType, isGenerating,
                  pending, nextId >>

----------------------------------------------------------------------------
(* Specifications *)

\* layers a click of the Scene can name: the ground plane, or the top or a
\* side face of a brick on the board
clickLayers ==
  { y \in ClickYs :
      y = 0 \/ \E i \in 1..Len(bricks) : y = bricks[i].y \/ y = bricks[i].y + 1 }

\* a step is taken only if the history and the index it leaves fit the bound
Bounded(n) == Len(history') <= n /\ currentHistoryIndex' <= n

\* the manual edits other than undo and redo, each on the render after the
\* previous one, with clicks in the columns Xs, the palette choosing among
\* Types and the history bounded by n
BuildEvents(Xs, Types, n) ==
  \/ \E x \in Xs, y \in clickLayers, z \in ClickZs :
        addBrick(x, y, z) /\ Bounded(n)
  \/ \E id \in 1..MaxBricks : removeBrick(id) /\ Bounded(n)
  \/ clearBricks /\ Bounded(n)
  \/ \E t \in Types : setSelectedBrickType(t)
  \/ \E id \in 1..MaxBricks : handleLiftBrick(id) /\ Bounded(n)
  \/ rotateLiftedGroup
  \/ \E x \in Xs, y \in clickLayers, z \in ClickZs :
        handleDropGroup(x, y, z) /\ Bounded(n)

EditNext ==
  \/ \E x \in ClickXs, y \in clickLayers, z \in ClickZs :
        addBrick(x, y, z) /\ Bounded(MaxHistory) /\ UNCHANGED aside
  \/ \E id \in 1..MaxBricks :
        removeBrick(id) /\ Bounded(MaxHistory) /\ UNCHANGED aside
  \/ clearBricks /\ Bounded(MaxHistory) /\ UNCHANGED aside
  \/ \E t \in TypeChoices : setSelectedBrickType(t) /\ UNCHANGED aside
  \/ \E id \in 1..MaxBricks :
        handleLiftBrick(id) /\ Bounded(MaxHistory) /\ UNCHANGED aside
  \/ rotateLiftedGroup /\ UNCHANGED aside
  \/ \E x \in ClickXs, y \in clickLayers, z \in ClickZs :
        handleDropGroup(x, y, z) /\ Bounded(MaxHistory) /\ UNCHANGED aside
  \/ undo /\ UNCHANGED aside
  \/ redo /\ UNCHANGED aside

Next ==
  \/ \E x \in GenClickXs, y \in clickLayers, z \in ClickZs :
        addBrick(x, y, z) /\ Bounded(GenMaxHistory) /\ UNCHANGED aside
  \/ \E id \in 1..MaxBricks :
        removeBrick(id) /\ Bounded(GenMaxHistory) /\ UNCHANGED aside
  \/ clearBricks /\ Bounded(GenMaxHistory) /\ UNCHANGED aside
  \/ \E t \in GenTypeChoices : setSelectedBrickType(t) /\ UNCHANGED aside
  \/ \E id \in 1..MaxBricks :
        handleLiftBrick(id) /\ Bounded(GenMaxHistory) /\ UNCHANGED aside
  \/ rotateLiftedGroup /\ UNCHANGED aside
  \/ \E x \in GenClickXs, y \in clickLayers, z \in ClickZs :
        handleDropGroup(x, y, z) /\ Bounded(GenMaxHistory) /\ UNCHANGED aside
  \/ undo /\ UNCHANGED aside
  \/ redo /\ UNCHANGED aside
  \/ generateRequest /\ UNCHANGED << hoverPos, trip, answer >>
  \/ \E i \in 1..Len(pending), r \in GenResults :
        /\ generateResolve(i, r) /\ Bounded(GenMaxHistory)
        /\ answer' = r
        /\ UNCHANGED << toolMode, hoverPos, trip >>
  \/ \E i \in 1..Len(pending) : generateFail(i) /\ UNCHANGED aside

\* the whole program
Spec == Init /\ [][Next]_vars

\* the program while no image is ever uploaded
EditSpec == Init /\ [][EditNext]_vars

\* the program while bricks are only added, removed, lifted and dropped, with
\* clicks in two neighbouring columns
LiftNext ==
  \/ \E x \in ClickXs, y \in clickLayers, z \in LiftZs :
        addBrick(x, y, z) /\ Bounded(LiftMaxHistory) /\ UNCHANGED aside
  \/ \E id \in 1..MaxBricks :
        removeBrick(id) /\ Bounded(LiftMaxHistory) /\ UNCHANGED aside
  \/ \E t \in TypeChoices : setSelectedBrickType(t) /\ UNCHANGED aside
  \/ \E id \in 1..MaxBricks :
        handleLiftBrick(id) /\ Bounded(LiftMaxHistory) /\ UNCHANGED aside
  \/ \E x \in ClickXs, y \in clickLayers, z \in LiftZs :
        handleDropGroup(x, y, z) /\ Bounded(LiftMaxHistory) /\ UNCHANGED aside

LiftSpec == Init /\ [][LiftNext]_vars

\* one move of a group: bricks are placed, then one brick is lifted, the
\* group is turned any number of times and dropped once
TurnAdd ==
  /\ trip.phase = "commits"
  /\ \E x \in ClickXs, y \in clickLayers, z \in LiftZs : addBrick(x, y, z)
  /\ UNCHANGED aside

TurnSelect ==
  /\ trip.phase = "commits"
  /\ \E t \in TypeChoices : setSelectedBrickType(t)
  /\ UNCHANGED aside

TurnLift ==
  /\ trip.phase = "commits"
  /\ \E id \in 1..MaxBricks : handleLiftBrick(id)
  /\ trip' = [trip EXCEPT !.phase = IF liftedGroup' # NoGroup
                                     THEN "held" ELSE "commits"]
  /\ UNCHANGED << toolMode, hoverPos, answer >>

TurnRotate ==
  /\ trip.phase = "held"
  /\ rotateLiftedGroup
  /\ UNCHANGED aside

TurnDrop ==
  /\ trip.phase = "held"
  /\ \E x \in ClickXs, y \in clickLayers, z \in LiftZs :
        handleDropGroup(x, y, z)
  /\ trip' = [trip EXCEPT !.phase = IF liftedGroup' = NoGroup
                                     THEN "dropped" ELSE "held"]
  /\ UNCHANGED << toolMode, hoverPos, answer >>

TurnNext == TurnAdd \/ TurnSelect \/ TurnLift \/ TurnRotate \/ TurnDrop

TurnSpec == Init /\ [][TurnNext]_vars

\* handleGenerate called by a caller that does not look at the busy flag,
\* between edits, undos and redos
ReentrantNext ==
  \/ /\ Len(pending) < MaxPending
     /\ handleGenerate
     /\ UNCHANGED << hoverPos, trip, answer >>
  \/ \E i \in 1..Len(pending), r \in GenResults :
        /\ generateResolve(i, r) /\ Bounded(GenMaxHistory)
        /\ answer' = r
        /\ UNCHANGED << toolMode, hoverPos, trip >>
  \/ \E i \in 1..Len(pending) : generateFail(i) /\ UNCHANGED aside
  \/ \E x \in GenClickXs, y \in clickLayers, z \in ClickZs :
        addBrick(x, y, z) /\ Bounded(GenMaxHistory) /\ UNCHANGED aside
  \/ undo /\ UNCHANGED aside
  \/ redo /\ UNCHANGED aside

ReentrantSpec == Init /\ [][ReentrantNext]_vars

\* the program while the palette offers the special entries: bricks are added,
\* lifted, rotated and dropped, edits are undone and redone
SpecialNext ==
  \/ \E x \in ClickXs, y \in clickLayers, z \in ClickZs :
        addBrick(x, y, z) /\ Bounded(MaxHistory) /\ UNCHANGED aside
  \/ \E t \in SpecialTypes : setSelectedBrickType(t) /\ UNCHANGED aside
  \/ \E id \in 1..MaxBricks :
        handleLiftBrick(id) /\ Bounded(MaxHistory) /\ UNCHANGED aside
  \/ rotateLiftedGroup /\ UNCHANGED aside
  \/ \E x \in ClickXs, y \in clickLayers, z \in ClickZs :
        handleDropGroup(x, y, z) /\ Bounded(MaxHistory) /\ UNCHANGED aside
  \/ undo /\ UNCHANGED aside
  \/ redo /\ UNCHANGED aside

SpecialSpec == Init /\ [][SpecialNext]_vars

\* the program driven through the Scene: tools and catalog entries are
\* selected, the pointer moves and clicks on the plane and on bricks
SceneBounded == Bounded(MaxHistory) /\ nextId' <= SceneMaxBricks + 1

SceneNext ==
  \/ \E mode \in SceneModes : setToolMode(mode)
  \/ \E t \in SceneTypes : setSelectedBrickType(t) /\ UNCHANGED aside
  \/ rotateLiftedGroup /\ UNCHANGED aside
  \/ \E px \in ScenePlaneXs, pz \in ScenePlaneZs : handlePointerMove(px, pz)
  \/ handleClick /\ SceneBounded
  \/ \E i \in 1..Len(bricks) : \E h \in FaceHits(bricks[i]) :
        onBrickClick(bricks[i], h.point, h.normal) /\ SceneBounded
  \/ \E i \in 1..Len(bricks) : \E h \in FaceHits(bricks[i]) :
        onBrickHover(bricks[i], h.point, h.normal)

SceneSpec == Init /\ [][SceneNext]_vars

\* voxels the service answers with while only the packer is exercised: a
\* square of four red cells on the ground, a voxel of another color in one
\* of them, and two red voxels of the layer above
PackVoxels ==
  { Voxel(0, 0, 0, RED), Voxel(1, 0, 0, RED), Voxel(0, 0, 1, RED),
    Voxel(1, 0, 1, RED), Voxel(0, 0, 0, RGB_RED), Voxel(0, 1, 0, RED),
    Voxel(1, 1, 0, RED) }

\* every voxel list of at most MaxVoxels voxels
PackInputs == UNION { [1..k -> PackVoxels] : k \in 0..MaxVoxels }

\* the first image uploaded in a session: the call, then its answer or its
\* failure, with no edit in between
PackNext ==
  \/ /\ history = << << >> >>
     /\ generateRequest
     /\ UNCHANGED << hoverPos, trip, answer >>
  \/ \E r \in PackInputs :
        /\ generateResolve(1, r)
        /\ answer' = r
        /\ UNCHANGED << toolMode, hoverPos, trip >>
  \/ generateFail(1) /\ UNCHANGED aside

PackSpec == Init /\ [][PackNext]_vars

\* the App variant built on the useHistory hook, while no image is uploaded
HookNext ==
  \/ \E x \in ClickXs, y \in clickLayers, z \in ClickZs :
        hookAddBrick(x, y, z) /\ Bounded(MaxHistory) /\ UNCHANGED aside
  \/ \E id \in 1..MaxBricks :
        hookRemoveBrick(id) /\ Bounded(MaxHistory) /\ UNCHANGED aside
  \/ hookClearBricks /\ Bounded(MaxHistory) /\ UNCHANGED aside
  \/ \E t \in TypeChoices : setSelectedBrickType(t) /\ UNCHANGED aside
  \/ \E id \in 1..MaxBricks :
        hookHandleLiftBrick(id) /\ Bounded(MaxHistory) /\ UNCHANGED aside
  \/ rotateLiftedGroup /\ UNCHANGED aside
  \/ \E x \in ClickXs, y \in clickLayers, z \in ClickZs :
        hookHandleDropGroup(x, y, z) /\ Bounded(MaxHistory) /\ UNCHANGED aside
  \/ hookUndo /\ UNCHANGED aside
  \/ hookRedo /\ UNCHANGED aside

HookSpec == Init /\ [][HookNext]_vars

\* the generation scenario: the whole program runs, then an image is uploaded
\* while no call is outstanding, the service answers with bricks before
\* anything else happens, and the result is undone and redone; trip.after
\* keeps the history state the request was made in
GenTripEdit ==
  /\ trip.phase = "commits"
  /\ Next

GenTripRequest ==
  /\ trip.phase = "commits"
  /\ pending = << >>
  /\ generateRequest
  /\ trip' = [phase |-> "requested", undone |-> 0, after |-> historyState]
  /\ UNCHANGED << hoverPos, answer >>

GenTripResolve ==
  /\ trip.phase = "requested"
  /\ \E r \in GenResults :
        /\ generateResolve(1, r) /\ Bounded(GenMaxHistory)
        /\ answer' = r
  /\ trip' = [trip EXCEPT !.phase = "generated"]
  /\ UNCHANGED << toolMode, hoverPos >>

GenTripUndo ==
  /\ trip.phase = "generated"
  /\ undo
  /\ trip' = [trip EXCEPT !.phase = "undone"]
  /\ UNCHANGED << toolMode, hoverPos, answer >>

GenTripRedo ==
  /\ trip.phase = "undone"
  /\ redo
  /\ trip' = [trip EXCEPT !.phase = "redone"]
  /\ UNCHANGED << toolMode, hoverPos, answer >>

GenTripNext ==
  GenTripEdit \/ GenTripRequest \/ GenTripResolve \/ GenTripUndo
     \/ GenTripRedo

GenTripSpec == Init /\ [][GenTripNext]_vars

\* the round-trip scenario: edits that commit, then undos, then as many redos
TripBuild ==
  /\ trip.phase = "commits"
  /\ BuildEvents(ClickXs, TypeChoices, MaxHistory)
  /\ trip' = [trip EXCEPT !.after = historyState']
  /\ UNCHANGED << toolMode, hoverPos, answer >>

TripUndo ==
  /\ trip.phase \in {"commits", "undos"}
  /\ canUndo
  /\ undo
  /\ trip' = [trip EXCEPT !.phase = "undos", !.undone = trip.undone + 1]
  /\ UNCHANGED << toolMode, hoverPos, answer >>

TripRedo ==
  /\ trip.phase \in {"undos", "redos"}
  /\ trip.undone > 0
  /\ redo
  /\ trip' = [trip EXCEPT !.phase = "redos", !.undone = trip.undone - 1]
  /\ UNCHANGED << toolMode, hoverPos, answer >>

RoundTripNext == TripBuild \/ TripUndo \/ TripRedo

RoundTripSpec == Init /\ [][RoundTripNext]_vars

----------------------------------------------------------------------------
(* History claims *)

\* the index is a valid index of the history and the snapshot it names is
\* the live board
HistoryInvariant ==
  /\ 0 <= currentHistoryIndex
  /\ currentHistoryIndex < Len(history)
  /\ bricks = HistoryAt(currentHistoryIndex)

\* C1: after any sequence of add, remove, clear, lift, drop, rotate, undo and
\* redo with no generation in play, 0 <= currentHistoryIndex < history.length
\* and the live board equals history[currentHistoryIndex]
C1_IndexInBoundsAndBoardCurrent == HistoryInvariant

\* C1 witness: after commits and an undo, in the middle of a history whose
\* snapshots differ, with a brick on the board
C1_Witness ==
  /\ canUndo
  /\ canRedo
  /\ bricks # << >>
  /\ HistoryAt(currentHistoryIndex + 1) # bricks

\* a step in which a generation result is committed
GenerationCommit ==
  \E i \in 1..Len(pending), r \in GenResults : generateResolve(i, r)

\* C2: whatever edits ran between a generation request and the commit of its
\* result, the state after that commit has 0 <= currentHistoryIndex <
\* history.length and live board = history[currentHistoryIndex]
C2_GenerationCommitKeepsInvariant ==
  [][(HistoryInvariant /\ GenerationCommit) => HistoryInvariant']_vars

\* a step that calls saveToHistory: the index goes up by one and the step is
\* no redo
CommitStep ==
  /\ currentHistoryIndex' = currentHistoryIndex + 1
  /\ ~redo

\* C3: a commit made at index i over history h yields history = h[0..i]
\* followed by the new snapshot, index = i + 1 and live board = the new
\* snapshot, and leaves nothing to redo
C3_CommitTruncatesAtCurrentIndex ==
  [][(HistoryInvariant /\ CommitStep) =>
        /\ history' = Append(SubSeq(history, 1, currentHistoryIndex + 1),
                             bricks')
        /\ ~canRedo']_vars

\* C4: from the initial state, k commits followed by N undos and then N
\* redos (N <= k) leave the live board, the history sequence and the index
\* as they were right after the k commits
C4_RoundTrip ==
  (trip.phase = "redos" /\ trip.undone = 0) => historyState = trip.after

\* C4 witness: two undos have been redone over a history of three commits,
\* the last of which left a brick on the board
C4_Witness ==
  /\ trip.phase = "redos"
  /\ trip.undone = 0
  /\ currentHistoryIndex = 3
  /\ bricks # << >>
  /\ HistoryAt(1) # bricks
  /\ HistoryAt(2) # bricks

\* C5: undo and redo never change the history; undo moves to index - 1 with
\* board = history[index - 1] if and only if canUndo, redo moves to index + 1
\* with board = history[index + 1] if and only if canRedo, and at the ends
\* they leave history, index, live board and lifted group unchanged
C5_UndoRedoMoveThePointer ==
  [][/\ undo =>
          /\ history' = history
          /\ IF canUndo
             THEN /\ currentHistoryIndex' = currentHistoryIndex - 1
                  /\ HistoryHas(currentHistoryIndex - 1)
                  /\ bricks' = HistoryAt(currentHistoryIndex - 1)
             ELSE UNCHANGED << currentHistoryIndex, bricks, liftedGroup >>
     /\ redo =>
          /\ history' = history
          /\ IF canRedo
             THEN /\ currentHistoryIndex' = currentHistoryIndex + 1
                  /\ HistoryHas(currentHistoryIndex + 1)
                  /\ bricks' = HistoryAt(currentHistoryIndex + 1)
             ELSE UNCHANGED << currentHistoryIndex, bricks, liftedGroup >>
    ]_vars

----------------------------------------------------------------------------
(* Lift and drop claims *)

\* the grid cells of one layer a footprint of the given size covers
FootprintCells(x, z, sizeX, sizeZ) ==
  { << i, k >> : i \in x..(x + sizeX - 1), k \in z..(z + sizeZ - 1) }

\* the cells a placed brick covers in its layer
XZCells(b) == FootprintCells(b.x, b.z, b.sizeX, b.sizeZ)

\* two bricks share a cell of the grid
ShareCell(a, b) == a.y = b.y /\ XZCells(a) \cap XZCells(b) # {}

\* the state right after handleLiftBrick lifted Group.anchorId off the board
\* history[currentHistoryIndex - 1]
JustLifted ==
  /\ HasGroup
  /\ canUndo
  /\ HistoryHas(currentHistoryIndex - 1)
  /\ LET pre == HistoryAt(currentHistoryIndex - 1)
     IN /\ Group.anchorId \in Ids(pre)
        /\ bricks = remainingBricks(Group.anchorId, pre)
        /\ Group = groupWithOffsets(Group.anchorId, pre)

\* the board the held group was lifted from, and the anchor brick on it
PreLiftBoard == HistoryAt(currentHistoryIndex - 1)
PreLiftAnchor ==
  CHOOSE b \in Range(PreLiftBoard) : b.id = Group.anchorId

\* dropping at the anchor's original position is accepted and puts back
\* exactly the bricks of the board before the lift
DropAtOriginRestores ==
  ENABLED (/\ handleDropGroup(PreLiftAnchor.x, PreLiftAnchor.y,
                              PreLiftAnchor.z)
           /\ liftedGroup' = NoGroup
           /\ Range(bricks') = Range(PreLiftBoard))

\* no brick left on the board shares a cell with a lifted brick's old place
NothingLeftInGroupCells ==
  \A r \in Range(bricks), m \in Range(PreLiftBoard) :
     m.id \in Ids(Group.bricks) => ~ShareCell(r, m)

\* C6 as stated: for any board reachable through add, remove, lift and drop
\* and any brick id on it, lift(id) followed by drop at that brick's original
\* (x, y, z) is accepted and yields the same set of bricks as before the lift
C6_LiftDropRestores == JustLifted => DropAtOriginRestores

\* C6 amended: lift(id) followed by drop at the brick's original (x, y, z) is
\* accepted and yields the same set of bricks as before the lift, provided no
\* brick left on the board occupies a cell of a lifted brick
C6_LiftDropRestoresWhenCellsFree ==
  (JustLifted /\ NothingLeftInGroupCells) => DropAtOriginRestores

\* C6 witness: a brick away from the origin of the grid has been lifted, a
\* brick stays behind, and the cells of the lifted brick are free
C6_Witness ==
  /\ JustLifted
  /\ NothingLeftInGroupCells
  /\ bricks # << >>
  /\ PreLiftAnchor.y + PreLiftAnchor.z > 0

\* brick b rests on brick c: one layer up, sharing a column
RestsOn(b, c) == b.y = c.y + 1 /\ XZCells(b) \cap XZCells(c) # {}

\* the least set of bricks that contains S and every brick resting on one of
\* its members
RECURSIVE UpwardClosure(_, _)
UpwardClosure(S, allBricks) ==
  LET more == { b \in Range(allBricks) : \E c \in S : RestsOn(b, c) }
  IN IF more \subseteq S THEN S ELSE UpwardClosure(S \cup more, allBricks)

\* C7: for every board and start brick on it, getLiftableBricks returns
\* exactly the least set that contains the start brick and is closed under
\* "b.y = c.y + 1 and b XZ-overlaps a collected c", and never a brick with
\* y <= start.y other than the start brick
C7_LiftableIsUpwardClosure ==
  \A i \in 1..Len(bricks) :
     LET start == bricks[i]
         got == Range(getLiftableBricks(start.id, bricks))
     IN /\ got = { b.id : b \in UpwardClosure({start}, bricks) }
        /\ \A b \in Range(bricks) :
              (b.id \in got /\ b.y <= start.y) => b.id = start.id

\* C7 witness: a three-layer stack whose bricks share a column; from the
\* middle brick the traversal collects the middle and the top brick only
C7_Witness ==
  \E i, j, k \in 1..Len(bricks) :
     /\ bricks[i].y = 0 /\ bricks[j].y = 1 /\ bricks[k].y = 2
     /\ RestsOn(bricks[j], bricks[i])
     /\ RestsOn(bricks[k], bricks[j])
     /\ Range(getLiftableBricks(bricks[j].id, bricks))
           = { bricks[j].id, bricks[k].id }

\* some member of the held group, placed at anchor + offset, shares a cell
\* with a brick of the board
DropCollides(anchorX, anchorY, anchorZ) ==
  \E m \in Range(Group.bricks), e \in Range(bricks) :
     /\ anchorY + m.offsetY = e.y
     /\ FootprintCells(anchorX + m.offsetX, anchorZ + m.offsetZ,
                       m.sizeX, m.sizeZ) \cap XZCells(e) # {}

\* C8: if a group is held and some member at anchor + offset has the same y
\* as, and an XZ-overlapping footprint with, a brick of the live board, drop
\* changes nothing: board, history, index and lifted group stay as they are
C8_CollidingDropChangesNothing ==
  [][\A x \in ClickXs, y \in ClickYs, z \in LiftZs :
        (HasGroup /\ DropCollides(x, y, z) /\ handleDropGroup(x, y, z))
           => UNCHANGED << bricks, history, currentHistoryIndex,
                           liftedGroup >>]_vars

\* C8 witness: a group is held over a board on which a click names an anchor
\* where only part of a member's footprint is taken, and the drop there
\* leaves the group held
C8_Witness ==
  /\ HasGroup
  /\ \E x \in ClickXs, y \in clickLayers, z \in LiftZs :
        /\ DropCollides(x, y, z)
        /\ \A e \in Range(bricks) : e.z # z
        /\ ENABLED (handleDropGroup(x, y, z) /\ liftedGroup' = liftedGroup)

\* C9: in every reachable state in which a lifted group is held, no member
\* of the group has the id of a brick of the live board
C9_GroupOffTheBoard ==
  HasGroup => Ids(Group.bricks) \cap Ids(bricks) = {}

\* C9 witness: a group of two bricks is held over a board that keeps a brick
C9_Witness ==
  /\ HasGroup
  /\ Len(Group.bricks) >= 2
  /\ bricks # << >>

\* the members of the held group whose offset is (0, 0, 0)
MembersAtPivot ==
  { m \in Range(Group.bricks) :
       m.offsetX = 0 /\ m.offsetY = 0 /\ m.offsetZ = 0 }

----------------------------------------------------------------------------
(* Lift and drop contracts *)

\* brick p is member m of the held group put at anchor + offset: same id,
\* color, footprint, rotation and special type, and no offsets
PlacedMember(p, m, anchorX, anchorY, anchorZ) ==
  /\ p.id = m.id /\ p.color = m.color
  /\ p.sizeX = m.sizeX /\ p.sizeZ = m.sizeZ
  /\ p.rotation = m.rotation /\ p.specialType = m.specialType
  /\ p.x = anchorX + m.offsetX
  /\ p.y = anchorY + m.offsetY
  /\ p.z = anchorZ + m.offsetZ
  /\ DOMAIN p \cap {"offsetX", "offsetY", "offsetZ"} = {}

\* one snapshot, the new live board, is appended behind the current one
OneEntryAppended ==
  /\ history' = SubSeq(history, 1, currentHistoryIndex + 1) \o << bricks' >>
  /\ Len(history') = Len(history) + 1
  /\ currentHistoryIndex' = currentHistoryIndex + 1

\* C18: drop changes nothing when no group is held; when a group is held and
\* no member at anchor + offset collides with a brick of the board, the new
\* board is the old board followed by every member placed at anchor + offset
\* with id, color and footprint unchanged and offsets cleared, exactly one
\* history entry is appended and no group is held afterwards
C18_DropPlacesGroupAtAnchor ==
  [][\A x \in ClickXs, y \in ClickYs, z \in LiftZs :
        handleDropGroup(x, y, z) =>
           IF ~HasGroup
           THEN UNCHANGED << bricks, history, currentHistoryIndex,
                             liftedGroup >>
           ELSE ~DropCollides(x, y, z) =>
                   /\ Len(bricks') = Len(bricks) + Len(Group.bricks)
                   /\ SubSeq(bricks', 1, Len(bricks)) = bricks
                   /\ \A j \in 1..Len(Group.bricks) :
                         PlacedMember(bricks'[Len(bricks) + j],
                                      Group.bricks[j], x, y, z)
                   /\ OneEntryAppended
                   /\ liftedGroup' = NoGroup]_vars

\* C18 witness: the newest snapshot is current, no group is held, and the
\* board holds two bricks, one above the other, that are missing from the
\* snapshot before and stand at another place than in the snapshot before
\* that: a group of two has just been dropped
C18_Witness ==
  /\ ~HasGroup
  /\ Len(history) >= 4
  /\ currentHistoryIndex = Len(history) - 1
  /\ Len(bricks) = 2
  /\ bricks[2].y = bricks[1].y + 1
  /\ \A k \in {1, 2} :
        /\ \A a \in Range(history[Len(history) - 1]) : a.id # bricks[k].id
        /\ \E a \in Range(history[Len(history) - 2]) :
              a.id = bricks[k].id /\ a.z # bricks[k].z

\* the bricks lift(id) collects: the brick with that id and, repeatedly,
\* every brick resting on a collected one
Collected(id) ==
  UpwardClosure({ b \in Range(bricks) : b.id = id }, bricks)

\* C19: lift(id) with id on the board appends exactly one history entry, the
\* old board without the collected bricks and the others in their order, and
\* holds a group with anchorId = id made of exactly the collected bricks, each
\* with offset = its position minus that of the start brick, offsetY >= 0;
\* lift(id) with id not on the board changes neither board, history, index
\* nor lifted group
C19_LiftCollectsGroup ==
  [][\A id \in 1..MaxBricks :
        handleLiftBrick(id) =>
           IF id \in Ids(bricks)
           THEN LET start == CHOOSE b \in Range(bricks) : b.id = id
                IN /\ bricks' = SelectSeq(bricks,
                                          LAMBDA b : b \notin Collected(id))
                   /\ OneEntryAppended
                   /\ liftedGroup' # NoGroup
                   /\ liftedGroup'[1].anchorId = id
                   /\ Len(liftedGroup'[1].bricks) = Cardinality(Collected(id))
                   /\ \A b \in Collected(id) :
                         \E m \in Range(liftedGroup'[1].bricks) :
                            /\ m.id = b.id /\ m.color = b.color
                            /\ m.sizeX = b.sizeX /\ m.sizeZ = b.sizeZ
                            /\ m.offsetX = b.x - start.x
                            /\ m.offsetY = b.y - start.y
                            /\ m.offsetZ = b.z - start.z
                            /\ m.offsetY >= 0
           ELSE UNCHANGED << bricks, history, currentHistoryIndex,
                             liftedGroup >>]_vars

\* C19 witness: a group of two bricks, one above the anchor, has just been
\* lifted off a board on which a third brick stays
C19_Witness ==
  /\ JustLifted
  /\ Len(Group.bricks) = 2
  /\ \E m \in Range(Group.bricks) : m.offsetY = 1
  /\ Len(bricks) = 1

\* C23: in the App variant built on the useHistory hook, a lift of a brick
\* of the board leaves a lifted group held, made of the collected bricks; the
\* effect that resets the lifted group when the bricks state changes does
\* not discard the group created by that same lift
C23_HookLiftKeepsGroup ==
  [][\A id \in 1..MaxBricks :
        (id \in Ids(bricks) /\ hookHandleLiftBrick(id)) =>
           /\ liftedGroup' # NoGroup
           /\ Ids(liftedGroup'[1].bricks) = { b.id : b \in Collected(id) }]_vars

----------------------------------------------------------------------------
(* Voxel packer claims *)

\* the answer of the service has been packed and committed as the board
AnswerCommitted == Len(history) = 2 /\ currentHistoryIndex = 1

\* the voxel list optimizeBricks was called with
PackedInput == rawBricksOf(answer)

\* the (x, z) cells of the input voxels of layer y and color c
InputCells(y, c) ==
  { << v.x, v.z >> : v \in { w \in Range(PackedInput) : w.y = y /\ w.color = c } }

\* the output bricks of layer y and color c
OutputBricks(y, c) == { b \in Range(bricks) : b.y = y /\ b.color = c }

\* C11: for every input voxel list and each (y, color) group of it, the cells
\* covered by the output bricks of that y and color are exactly the group's
\* input (x, z) cells, and no cell is covered by two output bricks of the group
C11_PackingCoversEachGroup ==
  AnswerCommitted =>
     \A v \in Range(PackedInput) :
        /\ UNION { XZCells(b) : b \in OutputBricks(v.y, v.color) }
              = InputCells(v.y, v.color)
        /\ \A a, b \in OutputBricks(v.y, v.color) :
              a # b => XZCells(a) \cap XZCells(b) = {}

\* a brick without its id
withoutId(b) ==
  [ x |-> b.x, y |-> b.y, z |-> b.z, color |-> b.color, sizeX |-> b.sizeX,
    sizeZ |-> b.sizeZ, rotation |-> b.rotation,
    specialType |-> b.specialType ]

withoutIds(list) == [i \in 1..Len(list) |-> withoutId(list[i])]

\* every reordering of a list
Reorderings(list) ==
  { [i \in 1..Len(list) |-> list[f[i]]] :
      f \in { g \in [1..Len(list) -> 1..Len(list)] :
                 \A i, j \in 1..Len(list) : i # j => g[i] # g[j] } }

\* two lists hold the same elements the same number of times
SameElements(l1, l2) ==
  /\ Len(l1) = Len(l2)
  /\ \A e \in Range(l1) \cup Range(l2) :
        Cardinality({ i \in 1..Len(l1) : l1[i] = e })
           = Cardinality({ i \in 1..Len(l2) : l2[i] = e })

\* C12 as stated: for two voxel lists that are permutations of each other,
\* optimizeBricks, and the board handleGenerate commits after its sort by y,
\* produce the same brick list, element by element in the same order, ignoring
\* the ids
C12_PackingIgnoresInputOrder ==
  AnswerCommitted =>
     \A other \in Reorderings(answer) :
        /\ withoutIds(optimizeBricks(rawBricksOf(other), 1))
              = withoutIds(optimizeBricks(rawBricksOf(answer), 1))
        /\ withoutIds(generatedBricks(other, 1)) = withoutIds(bricks)

\* C12 amended: for two voxel lists that are permutations of each other,
\* optimizeBricks, and the board handleGenerate commits, produce the same
\* bricks ignoring the ids, each the same number of times; the order of the
\* bricks may differ
C12_PackingSameBricksForAnyOrder ==
  AnswerCommitted =>
     \A other \in Reorderings(answer) :
        /\ SameElements(withoutIds(optimizeBricks(rawBricksOf(other), 1)),
                        withoutIds(optimizeBricks(rawBricksOf(answer), 1)))
        /\ SameElements(withoutIds(generatedBricks(other, 1)),
                        withoutIds(bricks))

\* C12 witness: two voxels of one layer and color, side by side along x, were
\* answered with the right one first and packed into one brick
C12_Witness ==
  /\ AnswerCommitted
  /\ Len(answer) = 2
  /\ answer[1].x = answer[2].x + 1
  /\ answer[1].z = answer[2].z
  /\ keyOf(answer[1]) = keyOf(answer[2])
  /\ Len(bricks) = 1

\* the footprints << sizeX, sizeZ >> in the order they are tried: the
\* non-special catalog entries by descending area (catalog order among equal
\* areas), each as declared and then, unless square, swapped
FootprintOrder ==
  << << 2, 4 >>, << 4, 2 >>, << 2, 3 >>, << 3, 2 >>, << 1, 4 >>, << 4, 1 >>,
     << 2, 2 >>, << 1, 3 >>, << 3, 1 >>, << 1, 2 >>, << 2, 1 >>, << 1, 1 >> >>

\* the first cell of a non-empty set in ascending z, then ascending x
FirstCell(cells) ==
  CHOOSE c \in cells :
     \A d \in cells : d = c \/ c[2] < d[2] \/ (c[2] = d[2] /\ c[1] < d[1])

\* the first footprint of FootprintOrder whose rectangle at cell c lies in
\* cells without touching covered
FirstFitting(c, cells, covered) ==
  LET ok(k) == FootprintCells(c[1], c[2], FootprintOrder[k][1],
                              FootprintOrder[k][2]) \subseteq (cells \ covered)
      k == CHOOSE n \in 1..Len(FootprintOrder) :
              ok(n) /\ \A m \in 1..(n - 1) : ~ok(m)
  IN FootprintOrder[k]

\* the bricks of one group, as << x, y, z, sizeX, sizeZ >>, in the order the
\* greedy walk of the claim emits them
RECURSIVE Greedy(_, _, _)
Greedy(cells, covered, y) ==
  IF cells \subseteq covered THEN << >>
  ELSE LET c == FirstCell(cells \ covered)
           f == FirstFitting(c, cells, covered)
       IN << << c[1], y, c[2], f[1], f[2] >> >>
             \o Greedy(cells, covered \cup FootprintCells(c[1], c[2], f[1], f[2]),
                       y)

\* the greedy bricks of every group of the input, the groups in the order of
\* their first voxel
RECURSIVE GreedyFrom(_)
GreedyFrom(i) ==
  IF i > Len(PackedInput) THEN << >>
  ELSE LET v == PackedInput[i]
       IN (IF \E j \in 1..(i - 1) : keyOf(PackedInput[j]) = keyOf(v)
           THEN << >>
           ELSE Greedy(InputCells(v.y, v.color), {}, v.y))
             \o GreedyFrom(i + 1)

Placement(b) == << b.x, b.y, b.z, b.sizeX, b.sizeZ >>
Placements(list) == [i \in 1..Len(list) |-> Placement(list[i])]

\* C20: within each (y, color) group optimizeBricks visits cells in ascending
\* z then x and at each cell not yet covered emits a brick whose minimum
\* corner is that cell and whose footprint is the first that fits in the
\* order of the non-special catalog entries by descending area, declared
\* before rotated; every emitted brick has such a footprint and no
\* specialType; two x-adjacent voxels of one layer and color yield a single
\* brick of width 2 and depth 1
C20_PackingIsGreedyFirstFit ==
  AnswerCommitted =>
     LET out == optimizeBricks(PackedInput, 1)
     IN /\ Placements(out) = GreedyFrom(1)
        /\ SameElements(Placements(bricks), Placements(out))
        /\ \A b \in Range(out) \cup Range(bricks) :
              /\ b.specialType = NONE
              /\ << b.sizeX, b.sizeZ >> \in Range(FootprintOrder)
        /\ \A v, w \in Range(PackedInput) :
              (/\ keyOf(v) = keyOf(w) /\ w.x = v.x + 1 /\ w.z = v.z
               /\ InputCells(v.y, v.color) = { << v.x, v.z >>, << w.x, w.z >> })
                 => /\ << v.x, v.y, v.z, 2, 1 >> \in Range(Placements(bricks))
                    /\ \A b \in Range(bricks) :
                          b.y = v.y => << b.x, b.z >> # << w.x, w.z >>

\* C20 witness: three voxels of one layer and color in an L were packed into
\* a 1x2 brick in its declared orientation at the first cell and a 1x1 brick
\* beside it
C20_Witness ==
  /\ AnswerCommitted
  /\ Len(answer) = 3
  /\ Len(bricks) = 2
  /\ \E b, c \in Range(bricks) :
        /\ b.sizeX = 1 /\ b.sizeZ = 2 /\ b.rotation = 0
        /\ c.sizeX = 1 /\ c.sizeZ = 1 /\ c.x = b.x + 1 /\ c.z = b.z
        /\ c.y = b.y /\ c.color = b.color

----------------------------------------------------------------------------
(* Generation claims *)

\* a step of handleGenerate for a call that fails or answers without a
\* bricks field: the part before the await, or the part after it
FailedCallStep == generateRequest \/ \E i \in 1..Len(pending) : generateFail(i)

\* C13: if the generation call rejects, or resolves without a bricks field,
\* no step of handleGenerate changes the live board, the history or the
\* index, and when handleGenerate finishes isGenerating is false
C13_FailedGenerationChangesNothing ==
  [][/\ FailedCallStep => UNCHANGED historyState
     /\ (\E i \in 1..Len(pending) : generateFail(i)) => ~isGenerating']_vars

\* C13 witness: a call made on a board with a brick and a history with a redo
\* entry is outstanding, and its failure leaves board, history and index alone
C13_Witness ==
  /\ pending # << >>
  /\ bricks # << >>
  /\ currentHistoryIndex < Len(history) - 1
  /\ ENABLED (generateFail(1) /\ UNCHANGED historyState /\ ~isGenerating')

\* C17 as stated: isGenerating is true in every state in which a call started
\* by handleGenerate has neither resolved nor rejected, also when
\* handleGenerate was invoked again before an earlier call finished, and it is
\* false once every outstanding call has finished
C17_BusyWhileAnyCallOutstanding == isGenerating <=> pending # << >>

\* C17 amended: invoking handleGenerate sets isGenerating, isGenerating goes
\* back to false only in a step in which a call resolves or rejects, and it
\* is false once every outstanding call has finished
C17_BusyUntilACallFinishes ==
  [][/\ Len(pending') > Len(pending) => isGenerating'
     /\ (isGenerating /\ ~isGenerating') => Len(pending') < Len(pending)
     /\ pending' = << >> => ~isGenerating']_vars

\* C17 witness: after an earlier call has resolved with bricks, a single call
\* is outstanding and the busy flag is set
C17_Witness ==
  /\ answer # << >>
  /\ Len(pending) = 1
  /\ isGenerating
  /\ Len(history) >= 2

\* the board that was current when the image was uploaded, and the index then
BoardBeforeGeneration == trip.after[1]
IndexBeforeGeneration == trip.after[3]

\* the live board is the packed answer of the service
BoardIsGenerated == withoutIds(bricks) = withoutIds(generatedBricks(answer, 1))

\* C22: a successful generation with no other operation between request and
\* result replaces the live board by the packed bricks and appends exactly
\* one history entry behind the one that was current; a single undo
\* afterwards restores the live board that was current before the
\* generation, and a following redo restores the generated board
C22_GenerationIsOneUndoableCommit ==
  /\ trip.phase = "generated" =>
        /\ BoardIsGenerated
        /\ currentHistoryIndex = IndexBeforeGeneration + 1
        /\ Len(history) = currentHistoryIndex + 1
        /\ HistoryAt(currentHistoryIndex) = bricks
  /\ trip.phase = "undone" => bricks = BoardBeforeGeneration
  /\ trip.phase = "redone" => BoardIsGenerated

----------------------------------------------------------------------------
(* Scene claims *)

OnBoard(b) ==
  /\ b.x >= 0 - MAX_BOARD_SIZE \div 2 /\ b.x <= MAX_BOARD_SIZE \div 2
  /\ b.z >= 0 - MAX_BOARD_SIZE \div 2 /\ b.z <= MAX_BOARD_SIZE \div 2

\* C14: after any sequence of pointer events of the Scene in BUILD mode
\* (plane clicks at the hover position, clicks on top or side faces of
\* bricks), every brick of the live board has x and z within
\* [-MAX_BOARD_SIZE/2, MAX_BOARD_SIZE/2]
C14_BricksWithinBoard == \A b \in Range(bricks) : OnBoard(b)

----------------------------------------------------------------------------
(* Brick record claims *)

\* every brick the program holds: on the live board, in a history snapshot
\* or in the lifted group
HeldBricks ==
  Range(bricks) \cup UNION { Range(history[i]) : i \in 1..Len(history) }
     \cup (IF HasGroup THEN Range(Group.bricks) ELSE {})

\* C15 as stated: every brick on the live board, in a history snapshot or in
\* the lifted group that carries a specialType has sizeX = 1 and sizeZ = 1
C15_SpecialBricksAreOneByOne ==
  \A b \in HeldBricks : b.specialType # NONE => b.sizeX = 1 /\ b.sizeZ = 1

\* C15 amended: every brick on the live board, in a history snapshot or in
\* the lifted group that carries a specialType has the footprint of the
\* catalog entry of that specialType, 1x1 for TIRE and 2x2 for AXLE, whatever
\* the rotation flag and however the group was rotated
C15_SpecialBricksKeepCatalogFootprint ==
  \A b \in HeldBricks :
     /\ b.specialType = "TIRE" => b.sizeX = 1 /\ b.sizeZ = 1
     /\ b.specialType = "AXLE" => b.sizeX = 2 /\ b.sizeZ = 2
     /\ b.specialType \in {NONE, "TIRE", "AXLE"}

\* C15 witness: a wheel added with the rotation flag set is on the board while
\* an axle brick is held in a group that was rotated
C15_Witness ==
  /\ \E b \in Range(bricks) : b.specialType = "TIRE" /\ b.rotation = 90
  /\ HasGroup
  /\ \E m \in Range(Group.bricks) : m.specialType = "AXLE" /\ m.rotation = 90
  /\ \E i \in 1..Len(history) : \E b \in Range(history[i]) :
        b.specialType = "AXLE" /\ b.rotation = 0

OffsetFields == {"offsetX", "offsetY", "offsetZ"}

\* C16: in every reachable state no brick of the live board or of a history
\* snapshot has an offsetX, offsetY or offsetZ, and every member of a held
\* lifted group has all three
C16_OffsetsOnlyInLiftedGroup ==
  /\ \A b \in Range(bricks) : DOMAIN b \cap OffsetFields = {}
  /\ \A i \in 1..Len(history) : \A b \in Range(history[i]) :
        DOMAIN b \cap OffsetFields = {}
  /\ HasGroup => \A m \in Range(Group.bricks) : OffsetFields \subseteq DOMAIN m

\* C16 witness: the newest snapshot is current and a brick of the live board
\* is missing from the snapshot before it and held by the one before that:
\* the brick was lifted into a group and has just been dropped back
C16_Witness ==
  /\ Len(history) >= 4
  /\ currentHistoryIndex = Len(history) - 1
  /\ \E b \in Range(bricks) :
        /\ \A a \in Range(history[Len(history) - 1]) : a.id # b.id
        /\ \E a \in Range(history[Len(history) - 2]) : a.id = b.id

----------------------------------------------------------------------------
(* Rotation claims *)

\* member n is member m after one quarter turn as the claim states it
QuarterTurned(m, n) ==
  /\ n.id = m.id
  /\ n.offsetY = m.offsetY
  /\ n.offsetX = m.offsetZ
  /\ n.offsetZ = (0 - m.offsetX) - m.sizeX
  /\ n.sizeX = m.sizeZ
  /\ n.sizeZ = m.sizeX

\* C21: rotateLiftedGroup while a group is held maps every member's
\* (offsetX, offsetZ, sizeX, sizeZ) to (offsetZ, -offsetX - sizeX, sizeZ,
\* sizeX), keeps offsetY, ids and anchorId, and leaves the live board, the
\* history, the index and the placement rotation flag unchanged; while no
\* group is held it only toggles the placement rotation flag
C21_RotateTurnsGroupOnly ==
  [][rotateLiftedGroup =>
        IF HasGroup
        THEN /\ UNCHANGED << bricks, history, currentHistoryIndex, rotated >>
             /\ liftedGroup' # NoGroup
             /\ liftedGroup'[1].anchorId = Group.anchorId
             /\ Len(liftedGroup'[1].bricks) = Len(Group.bricks)
             /\ \A j \in 1..Len(Group.bricks) :
                   QuarterTurned(Group.bricks[j], liftedGroup'[1].bricks[j])
        ELSE /\ rotated' = ~rotated
             /\ UNCHANGED << bricks, history, currentHistoryIndex, liftedGroup,
                             selectedBrickType, isGenerating, pending, nextId,
                             toolMode, hoverPos >>]_vars

\* C21 witness: a held group of two bricks has been turned: the member above
\* the anchor, lifted with offset (0, 1, 0), lies two wide at offsetZ = -1
C21_Witness ==
  /\ HasGroup
  /\ Len(Group.bricks) = 2
  /\ \E m \in Range(Group.bricks) :
        m.offsetY = 1 /\ m.offsetX = 0 /\ m.offsetZ = -1 /\ m.sizeX = 2

----------------------------------------------------------------------------
(* Connected-group claims *)

\* two bricks exactly one layer apart whose footprints share a cell
Touches(a, b) ==
  /\ (a.y - b.y = 1 \/ b.y - a.y = 1)
  /\ XZCells(a) \cap XZCells(b) # {}

\* the bricks reachable from S through chains of touching bricks
RECURSIVE TouchClosure(_, _)
TouchClosure(S, allBricks) ==
  LET more == { b \in Range(allBricks) : \E c \in S : Touches(b, c) }
  IN IF more \subseteq S THEN S ELSE TouchClosure(S \cup more, allBricks)

\* C24: for every board and start brick, getConnectedBricks returns the
\* start brick first and then exactly the ids of the bricks reachable from
\* it through chains of bricks one layer apart with overlapping footprints,
\* each id once; the connection relation is symmetric; and the upward-only
\* set of getLiftableBricks is contained in it.
C24_ConnectedIsTouchClosure ==
  /\ \A s \in Range(bricks) :
        LET connectedIds == getConnectedBricks(s.id, bricks)
        IN /\ connectedIds[1] = s.id
           /\ Range(connectedIds)
                = { b.id : b \in TouchClosure({s}, bricks) }
           /\ Cardinality(Range(connectedIds)) = Len(connectedIds)
           /\ Range(getLiftableBricks(s.id, bricks))
                \subseteq Range(connectedIds)
  /\ \A a, b \in Range(bricks) :
        /\ areConnected(a, b) = areConnected(b, a)
        /\ areConnected(a, b) = Touches(a, b)
  /\ \A id \in (1..MaxBricks) \ Ids(bricks) :
        getConnectedBricks(id, bricks) = << >>

\* a board of three where the search from a top brick goes down to the
\* brick below and up again to its other rider, which a lift leaves behind
C24_Witness ==
  \E s \in Range(bricks) :
     /\ s.y = 1
     /\ Len(getConnectedBricks(s.id, bricks)) = 3
     /\ Len(getLiftableBricks(s.id, bricks)) = 1
     /\ \E t \in Range(bricks) : t.id # s.id /\ t.y = 1

----------------------------------------------------------------------------
(* Undo and redo over a held group *)

\* an undo or a redo that is called with a group in hand and moves the index
HistoryMoveOverGroup ==
  /\ HasGroup
  /\ undo \/ redo
  /\ currentHistoryIndex' # currentHistoryIndex

\* C25: any undo or redo that moves the history index while a group is held
\* discards the group: afterwards no group is held, and a brick that was in
\* the group is on the live board only if it belongs to the snapshot the
\* index moved to.
C25_HistoryMoveDropsGroup ==
  [][HistoryMoveOverGroup =>
       /\ liftedGroup' = NoGroup
       /\ HistoryHas(currentHistoryIndex')
       /\ \A m \in Range(Group.bricks) :
             m.id \in Ids(bricks')
                => m.id \in Ids(HistoryAt(currentHistoryIndex'))]_vars

----------------------------------------------------------------------------
(* Collision claims *)

\* two placed bricks on one layer whose footprints share a cell
Collide(a, b) == a.y = b.y /\ XZCells(a) \cap XZCells(b) # {}

\* no two bricks of the list collide
CollisionFree(list) ==
  \A i, j \in 1..Len(list) : i # j => ~Collide(list[i], list[j])

\* the cells a member of the group covers, relative to the anchor
OffsetCells(m) == FootprintCells(m.offsetX, m.offsetZ, m.sizeX, m.sizeZ)

\* two members of a group that would collide wherever the group is dropped
MembersCollide(m, n) ==
  m.offsetY = n.offsetY /\ OffsetCells(m) \cap OffsetCells(n) # {}

\* no two members of the held group collide
GroupCollisionFree(held) ==
  held = NoGroup
    \/ \A i, j \in 1..Len(held[1].bricks) :
          i # j => ~MembersCollide(held[1].bricks[i], held[1].bricks[j])

\* a lift, a rotation of the group or a drop at some anchor
LiftTurnOrDrop ==
  \/ \E id \in 1..MaxBricks : handleLiftBrick(id)
  \/ rotateLiftedGroup
  \/ \E x \in ClickXs, y \in ClickYs, z \in LiftZs : handleDropGroup(x, y, z)

\* C26: if no two bricks of the board collide, then after a lift, any number
\* of rotations of the held group and an accepted drop at any anchor, still
\* no two bricks of the board collide.  Step by step: a lift, a rotation and
\* a drop each keep the board and the held group free of collisions, and a
\* rotation keeps the collision relation between any two members as it was.
C26_LiftTurnDropKeepsCollisionFree ==
  [][(LiftTurnOrDrop /\ CollisionFree(bricks) /\ GroupCollisionFree(liftedGroup))
       => /\ CollisionFree(bricks')
          /\ GroupCollisionFree(liftedGroup')
          /\ (HasGroup /\ rotateLiftedGroup
                => \A i, j \in 1..Len(Group.bricks) :
                      MembersCollide(Group.bricks[i], Group.bricks[j])
                        = MembersCollide(liftedGroup'[1].bricks[i],
                                         liftedGroup'[1].bricks[j]))]_vars

\* a collision-free board on which a group of two, turned while it was held,
\* has just been dropped beside a brick that stayed on the board
C26_Witness ==
  /\ CollisionFree(bricks)
  /\ ~HasGroup
  /\ Len(history) >= 3
  /\ currentHistoryIndex = Len(history) - 1
  /\ LET before == HistoryAt(currentHistoryIndex - 1)
         lifted == HistoryAt(currentHistoryIndex - 2)
     IN /\ CollisionFree(lifted)
        /\ Cardinality(Ids(bricks) \ Ids(before)) = 2
        /\ Ids(bricks) = Ids(lifted)
        /\ \E b \in Range(before) : \E d \in Range(bricks) :
              /\ d.id \notin Ids(before)
              /\ d.y = b.y
        /\ \E d \in Range(bricks) : \E o \in Range(lifted) :
              d.id = o.id /\ d.sizeX = o.sizeZ /\ d.sizeX # o.sizeX

----------------------------------------------------------------------------
(* Repeated rotation claims *)

\* the member of the held group that was clicked
AnchorMember == CHOOSE m \in Range(Group.bricks) : m.id = Group.anchorId

\* the point reflection of a set of cells through the grid point (px, pz)
ReflectedCells(cells, px, pz) ==
  { << 2 * px - c[1] - 1, 2 * pz - c[2] - 1 >> : c \in cells }

\* a call of rotateLiftedGroup on a held group, after which three more calls
\* bring every member back and one more call reflects every member's
\* footprint through the grid point (px, pz)
TurnsBackAndReflects(px, pz) ==
  \A i \in 1..Len(Group.bricks) :
     LET m == Group.bricks[i]
         once == liftedGroup'[1].bricks[i]
         twice == rotateMember(once)
         four == rotateMember(rotateMember(twice))
     IN /\ four.offsetX = m.offsetX /\ four.offsetZ = m.offsetZ
        /\ four.sizeX = m.sizeX /\ four.sizeZ = m.sizeZ
        /\ OffsetCells(twice) = ReflectedCells(OffsetCells(m), px, pz)

\* C27 as stated: four consecutive rotateLiftedGroup calls on a held group
\* restore every member's offsetX, offsetZ, sizeX and sizeZ, and two
\* consecutive calls map each member's footprint to its point reflection
\* through the minimum corner of the anchor's footprint
C27_TwoTurnsReflectThroughAnchorCorner ==
  [][(HasGroup /\ rotateLiftedGroup)
       => TurnsBackAndReflects(AnchorMember.offsetX, AnchorMember.offsetZ)]_vars

\* C27 amended: four consecutive rotateLiftedGroup calls on a held group
\* restore every member's offsetX, offsetZ, sizeX and sizeZ, and two
\* consecutive calls map each member's footprint to its point reflection
\* through the pivot, the point of offset (0, 0) at which the minimum corner
\* of the anchor's footprint was when the group was lifted
C27_TwoTurnsReflectThroughPivot ==
  [][(HasGroup /\ rotateLiftedGroup) => TurnsBackAndReflects(0, 0)]_vars

\* a held group of two with a 1x2 anchor that has been turned twice: the
\* anchor's footprint lies on the far side of the pivot
C27_Witness ==
  /\ HasGroup
  /\ Len(Group.bricks) = 2
  /\ AnchorMember.sizeX = 1 /\ AnchorMember.sizeZ = 2
  /\ AnchorMember.offsetX = -1 /\ AnchorMember.offsetZ = -2
  /\ \E o \in Range(Group.bricks) : o.offsetY = 1 /\ o.offsetZ = -1

----------------------------------------------------------------------------
(* Support claims *)

\* isSupported(brick, board): on the ground, or resting on a brick of the board
isSupported(brick, board) ==
  brick.y = 0 \/ \E b \in Range(board) : b.id # brick.id /\ RestsOn(brick, b)

AllSupported(board) == \A b \in Range(board) : isSupported(b, board)

\* C28: if every brick of the live board is supported before a lift (y = 0,
\* or some board brick one layer below overlaps it in XZ), then every brick
\* that remains on the live board after the lift is supported by the bricks
\* that remain.
C28_LiftKeepsRestSupported ==
  [][\A id \in 1..MaxBricks :
        (AllSupported(bricks) /\ id \in Ids(bricks) /\ handleLiftBrick(id))
           => AllSupported(bricks')]_vars

\* a brick has just been lifted off a supported board of three, and a brick
\* of an upper layer stays behind on the brick that carried both
C28_Witness ==
  /\ HasGroup
  /\ Len(history) >= 2
  /\ currentHistoryIndex = Len(history) - 1
  /\ HistoryAt(currentHistoryIndex) = bricks
  /\ LET before == HistoryAt(currentHistoryIndex - 1)
     IN /\ Len(before) = 3
        /\ AllSupported(before)
        /\ Ids(before) = Ids(bricks) \cup Ids(Group.bricks)
        /\ \E r \in Range(bricks) : r.y = 1
        /\ \E g \in Range(before) : g.id = Group.anchorId /\ g.y = 1

----------------------------------------------------------------------------
(* Generation over a held group *)

\* the brick is in a snapshot of the history before the current index
InEarlierSnapshot(id) ==
  \E k \in 0..(currentHistoryIndex - 1) :
     HistoryHas(k) /\ id \in Ids(HistoryAt(k))

\* C29: handleGenerate discards a held lifted group at request time, before
\* the service answers: the request leaves no group held and the bricks that
\* were in it neither on the live board nor held, to be found only in
\* earlier history snapshots, and the failure of the call changes neither
\* the board nor the (empty) hand.
C29_RequestDiscardsGroup ==
  [][/\ (HasGroup /\ generateRequest)
          => /\ liftedGroup' = NoGroup
             /\ \A m \in Range(Group.bricks) :
                   /\ m.id \notin Ids(bricks')
                   /\ InEarlierSnapshot(m.id)
     /\ (\E i \in 1..Len(pending) : generateFail(i))
          => UNCHANGED << bricks, liftedGroup >>]_vars

----------------------------------------------------------------------------
(* Packed board claims *)

\* no cell of the answered voxel list holds voxels of two colors
OneColorPerCell ==
  \A i, j \in 1..Len(PackedInput) :
     (/\ PackedInput[i].x = PackedInput[j].x
      /\ PackedInput[i].y = PackedInput[j].y
      /\ PackedInput[i].z = PackedInput[j].z)
        => PackedInput[i].color = PackedInput[j].color

\* the output of optimizeBricks for the answered voxel list, and the board
\* generated from it, are free of collisions
PackedCollisionFree ==
  /\ CollisionFree(optimizeBricks(PackedInput, 1))
  /\ CollisionFree(bricks)

\* C30 as stated: for every input voxel list, no two bricks in the output of
\* optimizeBricks collide (same y and XZ-overlapping footprints), so a
\* generated board is free of collisions
C30_PackedBoardCollisionFree == AnswerCommitted => PackedCollisionFree

\* C30 amended: for every input voxel list in which no cell (x, y, z) holds
\* voxels of two different colors, no two bricks in the output of
\* optimizeBricks collide, so the board generated from it is free of
\* collisions
C30_PackedBoardCollisionFreeForOneColorPerCell ==
  (AnswerCommitted /\ OneColorPerCell) => PackedCollisionFree

\* three voxels of one layer, two of one color and a third of another color
\* beside them, were packed into two bricks of that layer
C30_Witness ==
  /\ AnswerCommitted
  /\ OneColorPerCell
  /\ Len(answer) = 3
  /\ Len(bricks) = 2
  /\ \E a, b \in Range(bricks) :
        a.y = b.y /\ a.color # b.color /\ a.sizeX * a.sizeZ = 2

====
